---- MODULE Spec2Model ----
(***************************************************************************)
(* Feed ingestion pipeline of br-jobboard (src/app.js): the run guard      *)
(* FEED_RUNNING, the streaming parser callbacks, the enrichment loop of    *)
(* the parser 'end' handler, the transactional batch writer and the        *)
(* retention trim, over an SQLite store of jobs, tags and job_tags.        *)
(*                                                                         *)
(* Strings are sequences of one-character strings, so that lower-casing,   *)
(* substring search, slugify and the ', ' join/split of tags_csv are       *)
(* computed rather than assumed.                                           *)
(*                                                                         *)
(* One action is one synchronous segment of JavaScript: from the event     *)
(* that starts it to the next await.  Promise continuations (microtasks)   *)
(* run before any timer, socket or HTTP event (macrotask).                 *)
(***************************************************************************)
EXTENDS Integers, Sequences, FiniteSets, TLC

\* ------------------------------------------------------------------ bounds
MaxFeed == 2     \* items in the feed served at FEED_URL
MaxRuns == 2     \* calls of processFeed that get past the guard
MaxSkips == 1    \* processFeed invocations that find a run active
MaxFault == 1    \* statements of a batch write that succeed before one throws
MaxPosts == 1    \* POST /post-job requests
MaxKills == 1    \* kills of the process

Runs == 1..MaxRuns

\* ------------------------------------------------------------------ strings
Lower(c) ==
  CASE c = "K" -> "k"
    [] c = "X" -> "x"
    [] c = "A" -> "a"
    [] c = "P" -> "p"
    [] c = "S" -> "s"
    [] c = "BR" -> "br"
    [] c = "TITLE" -> "title"
    [] c = "pubDate" -> "pubdate"
    [] OTHER -> c

toLowerCase(s) == [n \in 1..Len(s) |-> Lower(s[n])]

\* String.prototype.includes
includes(text, kw) ==
  \E n \in 0..(Len(text) - Len(kw)) : SubSeq(text, n + 1, n + Len(kw)) = kw

IsAlnum(c) == c \in {"a", "b", "g", "j", "k", "o", "x", "A", "K", "X",
                     "0", "1", "2", "3", "4", "5", "6", "7", "8", "9"}

\* what \s matches
Whitespace == {" ", "\n"}

RECURSIVE trimStart(_)
trimStart(s) ==
  IF s # <<>> /\ Head(s) \in Whitespace THEN trimStart(Tail(s)) ELSE s

RECURSIVE trimEnd(_)
trimEnd(s) ==
  IF s # <<>> /\ s[Len(s)] \in Whitespace THEN trimEnd(SubSeq(s, 1, Len(s) - 1)) ELSE s

\* String.prototype.trim
trim(s) == trimStart(trimEnd(s))

\* slug.replace(/\s+/g, '-')
RECURSIVE spacesToHyphen(_)
spacesToHyphen(s) ==
  IF s = <<>> THEN <<>>
  ELSE IF Head(s) \in Whitespace
       THEN <<"-">> \o spacesToHyphen(trimStart(s))
       ELSE <<Head(s)>> \o spacesToHyphen(Tail(s))

KeepsInSlug(c) == IsAlnum(c) \/ c = " "

\* slugify(s, { lower: true, strict: true }): the replacement character is
\* read as a space, everything but letters, digits and spaces is removed,
\* the result is trimmed, runs of spaces become one '-', then lower-cased.
slugify(s) ==
  LET spaced == [n \in 1..Len(s) |-> IF s[n] = "-" THEN " " ELSE s[n]]
      kept == SelectSeq(spaced, KeepsInSlug)
  IN toLowerCase(spacesToHyphen(trim(kept)))

SlugMax == 120

\* const mkSlug = (s) => slugify(String(s || 'job'), ...).slice(0, 120)
mkSlug(s) ==
  LET r == slugify(IF s = <<>> THEN <<"j", "o", "b">> ELSE s)
  IN SubSeq(r, 1, IF Len(r) < SlugMax THEN Len(r) ELSE SlugMax)

tagSlug(t) == mkSlug(t)

TagCap == 8

RECURSIVE uniqNormTagsLoop(_, _)
uniqNormTagsLoop(tags, out) ==
  IF tags = <<>> THEN out
  ELSE LET t == trim(toLowerCase(Head(tags)))
       IN IF Head(tags) = <<>> \/ t = <<>> \/ (\E n \in 1..Len(out) : out[n] = t)
          THEN uniqNormTagsLoop(Tail(tags), out)
          ELSE uniqNormTagsLoop(Tail(tags), Append(out, t))

\* Variant: the result is not cut to eight entries.
uniqNormTags_noSlice(tags) ==
  uniqNormTagsLoop(tags, <<>>)

uniqNormTags(tags) ==
  LET out == uniqNormTagsLoop(tags, <<>>)
  IN SubSeq(out, 1, IF Len(out) < TagCap THEN Len(out) ELSE TagCap)

\* tags.join(', ')
RECURSIVE join(_)
join(tags) ==
  IF tags = <<>> THEN <<>>
  ELSE IF Len(tags) = 1 THEN Head(tags)
  ELSE Head(tags) \o <<",", " ">> \o join(Tail(tags))

\* csv.split(', ') : the pieces between occurrences of the separator
RECURSIVE splitLoop(_, _)
splitLoop(s, cur) ==
  IF s = <<>> THEN <<cur>>
  ELSE IF Len(s) >= 2 /\ s[1] = "," /\ s[2] = " "
       THEN <<cur>> \o splitLoop(SubSeq(s, 3, Len(s)), <<>>)
       ELSE splitLoop(Tail(s), Append(cur, Head(s)))

split(s) == splitLoop(s, <<>>)

NonEmpty(t) == t # <<>>

\* job.tags_csv.split(', ').filter(Boolean)
splitTags(csv) == SelectSeq(split(csv), NonEmpty)

\* A text is a sequence of symbols.  A symbol is one character, or a run of
\* characters that the texts of the model never split: a whole tag, a whole
\* character reference, the start of an attribute, a fixed piece of the
\* fallback template.
TagSymbols == {"<p>", "</p>", "<section>", "</section>", "<h2>", "</h2>",
               "<script>", "</script>", "<style>"}

\* tags whose end starts a new line in the text that html-to-text writes
BlockEnds == {"</p>", "</section>", "</h2>"}

\* escapeHtml: s.replace(/[&<>"']/g, ...) on one symbol
escapeSymbol(c) ==
  CASE c = "<" -> "&lt;"
    [] c = ">" -> "&gt;"
    [] c = "&" -> "&amp;"
    [] c = "<p>" -> "&lt;p&gt;"
    [] c = "</p>" -> "&lt;/p&gt;"
    [] c = "<section>" -> "&lt;section&gt;"
    [] c = "</section>" -> "&lt;/section&gt;"
    [] c = "<h2>" -> "&lt;h2&gt;"
    [] c = "</h2>" -> "&lt;/h2&gt;"
    [] c = "<script>" -> "&lt;script&gt;"
    [] c = "</script>" -> "&lt;/script&gt;"
    [] c = "<style>" -> "&lt;style&gt;"
    [] OTHER -> c

\* Variant: the text is put into the markup as it is.
escapeHtml_asIs(s) ==
  s

escapeHtml(s) ==
  [n \in 1..Len(s) |-> escapeSymbol(s[n])]

Entities == {escapeSymbol(c) : c \in TagSymbols \cup {"<", ">", "&"}}

\* the character reference read back as the characters it stands for
decodeEntity(e) == CHOOSE c \in TagSymbols \cup {"<", ">", "&"} : escapeSymbol(c) = e

\* the least n with s[n] in S, or 0
firstOf(s, S) ==
  IF \E n \in 1..Len(s) : s[n] \in S
  THEN CHOOSE n \in 1..Len(s) : s[n] \in S /\ \A m \in 1..(n - 1) : s[m] \notin S
  ELSE 0

NotInlineTag(c) == c \notin TagSymbols \ BlockEnds

\* what html-to-text writes for a text without '<'
textOf(s) ==
  LET kept == SelectSeq(s, NotInlineTag)
  IN [n \in 1..Len(kept) |-> IF kept[n] \in BlockEnds THEN "\n"
                             ELSE IF kept[n] \in Entities THEN decodeEntity(kept[n])
                             ELSE kept[n]]

\* convert(html): html-to-text drops the markup between '<' and '>', ends a
\* line where a block ends and reads character references as characters.
\* (The texts of the model are shorter than the wordwrap column.)
RECURSIVE convertLoop(_, _)
convertLoop(s, inTag) ==
  LET stop == firstOf(s, IF inTag THEN {">"} ELSE {"<"})
      rest == SubSeq(s, stop + 1, Len(s))
  IN IF inTag
     THEN IF stop = 0 THEN <<>> ELSE convertLoop(rest, FALSE)
     ELSE IF stop = 0 THEN textOf(s)
          ELSE textOf(SubSeq(s, 1, stop - 1)) \o convertLoop(rest, TRUE)

convert(html) == trim(convertLoop(html, FALSE))

\* ------------------------------------------------------------------ configuration
FEED_URL == <<"u">>
TARGET_PROFESSION == <<"K">>
PROFESSION_KEYWORDS == {<<"k">>}
\* PROFESSION_TAGS[TARGET_PROFESSION.toLowerCase()]
PROFESSION_TAGS == << <<"x">> >>
batchSize == 1

\* Variant: the text is compared as it is written.
matchesAmong_caseSensitive(keywords, title, company, description) ==
  LET text == title \o <<" ">> \o company \o <<" ">> \o description
  IN \E keyword \in keywords : includes(text, keyword)

\* const text = `${title} ${company} ${description}`.toLowerCase();
\* return <keywords>.some(keyword => text.includes(keyword))
matchesAmong(keywords, title, company, description) ==
  LET text == toLowerCase(title \o <<" ">> \o company \o <<" ">> \o description)
  IN \E keyword \in keywords : includes(text, keyword)

matchesProfession(title, company, description) ==
  matchesAmong(PROFESSION_KEYWORDS, title, company, description)

TruckDriver == <<"truck", " ", "driver">>

\* PROFESSION_TAGS['truck driver']
TruckDriverTags ==
  << <<"categoria", " ", "e">>, <<"categoria", " ", "a">>, <<"cnh">>,
     <<"longa", " ", "distancia">>, <<"regional">>, <<"local">>,
     <<"caminhao-tanque">>, <<"carroceria", " ", "plana">>, <<"otr">>,
     <<"cargas", " ", "perigosas", " ", "(hazmat)">> >>

\* PROFESSION_TAGS[profKey] || PROFESSION_TAGS[' Warehouse'] || []: the
\* second key is in no vocabulary, so an unknown profession has no tags.
profTags(profKey) ==
  IF profKey = toLowerCase(TARGET_PROFESSION) THEN PROFESSION_TAGS
  ELSE IF profKey = TruckDriver THEN TruckDriverTags
  ELSE <<>>

\* the five pattern tests of lines 309-313 and the tags they push
Patterns ==
  << [words |-> {<<"remote">>, <<"homeoffice">>, <<"home", " ", "office">>,
                 <<"work", " ", "from", " ", "home">>, <<"telecommute">>},
      tag |-> <<"remote">>],
     [words |-> {<<"vollzeit">>, <<"full", " ", "time">>, <<"full-time">>},
      tag |-> <<"full-time">>],
     [words |-> {<<"teilzeit">>, <<"part", " ", "time">>, <<"part-time">>},
      tag |-> <<"part-time">>],
     [words |-> {<<"festanstellung">>, <<"unbefristet">>, <<"permanent">>},
      tag |-> <<"permanent">>],
     [words |-> {<<"befristet">>, <<"temporary">>, <<"zeitarbeit">>, <<"contract">>},
      tag |-> <<"contract">>] >>

\* extractTags with TARGET_PROFESSION as configured
extractTagsFor(profession, title, company, html) ==
  LET text == toLowerCase(title \o <<" ">> \o company \o <<" ">> \o convert(html))
      found == SelectSeq(profTags(toLowerCase(profession)), LAMBDA tag : includes(text, tag))
      hits == SelectSeq(Patterns, LAMBDA p : \E w \in p.words : includes(text, w))
      pushed == [n \in 1..Len(hits) |-> hits[n].tag]
  IN uniqNormTags(found \o pushed \o <<toLowerCase(profession)>>)

\* extractTags of the deployment; the texts of Titles spell none of the
\* pattern words.
extractTags(title, company, html) ==
  extractTagsFor(TARGET_PROFESSION, title, company, html)

\* Math.floor(new Date(d).getTime() / 1000), d given in milliseconds
unixtime(d) == d \div 1000

\* ------------------------------------------------------------------ storage
\* db = [jobs, tags, job_tags, jobSeq, tagSeq]: the rows of the three tables
\* and the AUTOINCREMENT counters of jobs.id and tags.id.
EmptyDb == [jobs |-> {}, tags |-> {}, job_tags |-> {}, jobSeq |-> 0, tagSeq |-> 0]

\* SELECT id FROM jobs WHERE guid=? LIMIT 1
stmtHasGuid(d, guid) == {j \in d.jobs : j.guid = guid}

\* Variant: INSERT OR REPLACE INTO jobs.
stmtInsertJob_orReplace(d, job) ==
  [d EXCEPT !.jobs = {j \in @ : j.guid # job.guid /\ j.slug # job.slug}
                       \cup {[id |-> d.jobSeq + 1,
                               guid |-> job.guid,
                               title |-> job.title,
                               description_html |-> job.description_html,
                               published_at |-> job.published_at,
                               slug |-> job.slug,
                               tags_csv |-> job.tags_csv]},
            !.jobSeq = @ + 1]

\* INSERT OR IGNORE INTO jobs: guid and slug are UNIQUE
stmtInsertJob(d, job) ==
  IF \E j \in d.jobs : j.guid = job.guid \/ j.slug = job.slug
  THEN d
  ELSE [d EXCEPT !.jobs = @ \cup {[id |-> d.jobSeq + 1,
                                   guid |-> job.guid,
                                   title |-> job.title,
                                   description_html |-> job.description_html,
                                   published_at |-> job.published_at,
                                   slug |-> job.slug,
                                   tags_csv |-> job.tags_csv]},
                 !.jobSeq = @ + 1]

\* INSERT OR IGNORE INTO tags (name, slug): name and slug are UNIQUE
stmtInsertTag(d, name, slug) ==
  IF \E t \in d.tags : t.name = name \/ t.slug = slug
  THEN d
  ELSE [d EXCEPT !.tags = @ \cup {[id |-> d.tagSeq + 1, name |-> name, slug |-> slug]},
                 !.tagSeq = @ + 1]

\* SELECT * FROM tags WHERE name=? LIMIT 1
stmtGetTagByName(d, name) == {t \in d.tags : t.name = name}

\* INSERT OR IGNORE INTO job_tags (job_id, tag_id)
stmtInsertJobTag(d, jobId, tagId) ==
  [d EXCEPT !.job_tags = @ \cup {<<jobId, tagId>>}]

\* ORDER BY published_at DESC, id DESC
RanksBefore(a, b) ==
  \/ a.published_at > b.published_at
  \/ a.published_at = b.published_at /\ a.id > b.id

\* Variant: the rows are ranked by id alone.
stmtDeleteOld_byIdOnly(d, offset) ==
  [d EXCEPT !.jobs =
     {j \in @ : Cardinality({k \in d.jobs : k.id > j.id}) < offset}]

\* DELETE FROM jobs WHERE id IN (SELECT id ... LIMIT -1 OFFSET ?)
stmtDeleteOld(d, offset) ==
  [d EXCEPT !.jobs =
     {j \in @ : Cardinality({k \in d.jobs : RanksBefore(k, j)}) < offset}]

\* A statement run inside a transaction.  st = [db, left, ok]: left is the
\* number of statements that still succeed before one throws (-1: none
\* throws); ok is FALSE once a statement has thrown.
run(st, after) ==
  IF ~st.ok THEN st
  ELSE IF st.left = 0 THEN [st EXCEPT !.ok = FALSE]
  ELSE [db |-> after, left |-> IF st.left > 0 THEN st.left - 1 ELSE st.left, ok |-> TRUE]

\* Variant: the failed transaction keeps what its statements wrote.
transaction_noRollback(before, st) ==
  st

\* db.transaction(fn): BEGIN (or SAVEPOINT when nested), fn, COMMIT; an
\* exception rolls back to the state at BEGIN and is thrown again.
transaction(before, st) ==
  IF st.ok THEN st ELSE [st EXCEPT !.db = before]

RECURSIVE insertTag(_, _, _)
insertTag(st, jobId, names) ==
  IF names = <<>> \/ ~st.ok THEN st
  ELSE LET name == Head(names)
           s1 == run(st, stmtInsertTag(st.db, name, tagSlug(name)))
           t == stmtGetTagByName(s1.db, name)
           s2 == IF s1.ok /\ t # {}
                 THEN run(s1, stmtInsertJobTag(s1.db, jobId, (CHOOSE x \in t : TRUE).id))
                 ELSE s1
       IN insertTag(s2, jobId, Tail(names))

upsertTagsForJob(st, jobId, tags) ==
  transaction(st.db, insertTag(st, jobId, tags))

RECURSIVE insertBatchLoop(_, _)
insertBatchLoop(st, jobs) ==
  IF jobs = <<>> \/ ~st.ok THEN st
  ELSE LET job == Head(jobs)
           s1 == run(st, stmtInsertJob(st.db, job))
           inserted == stmtHasGuid(s1.db, job.guid)
           s2 == IF s1.ok /\ inserted # {}
                 THEN upsertTagsForJob(s1, (CHOOSE x \in inserted : TRUE).id,
                                       splitTags(job.tags_csv))
                 ELSE s1
       IN insertBatchLoop(s2, Tail(jobs))

\* const insertBatch = db.transaction((jobs) => { ... }); fault is the
\* number of statements that succeed before one throws, -1 for none.
insertBatch(d, jobs, fault) ==
  transaction(d, insertBatchLoop([db |-> d, left |-> fault, ok |-> TRUE], jobs))

\* ------------------------------------------------------------------ enrichment
\* Markup is a sequence of elements [kind, size]: "p" is harmless markup with
\* its text, "script" a script element with its content, "meta" a document
\* tag (DOCTYPE, html, head, body, meta, title); size is its length.
Para == [kind |-> "p", size |-> 60]
Line == [kind |-> "p", size |-> 10]
Script == [kind |-> "script", size |-> 60]
Meta == [kind |-> "meta", size |-> 60]

Harmless(e) == e.kind # "script"

\* sanitizeHtml: script elements go with their content
sanitizeHtml(html) == SelectSeq(html, Harmless)

NotDocumentTag(e) == e.kind # "meta"

stripDocumentTags(html) == SelectSeq(html, NotDocumentTag)

RECURSIVE length(_)
length(html) == IF html = <<>> THEN 0 ELSE Head(html).size + length(Tail(html))

MinHtml == 50

\* `<section><h2>Sobre a Vaga</h2><p>${escapeHtml(short)}</p></section>`
section(short) == <<[kind |-> "p", size |-> 47 + short]>>

\* What openai.chat.completions.create does: it throws, or it returns a
\* text.  Of the text: desc is the length of the ===DESCRIPTION=== section
\* (0: no match), html the markup of the ===HTML=== section (empty: no
\* match), parsed whether the ===TAGS=== section holds a JSON array, tags
\* that array.
AiReplies == {[threw |-> FALSE, parsed |-> TRUE, tags |-> << <<"a">>, <<"k", "!">> >>,
               desc |-> 10, html |-> <<Para>>],
              [threw |-> FALSE, parsed |-> FALSE, tags |-> <<>>,
               desc |-> 10, html |-> <<Para>>],
              [threw |-> TRUE, parsed |-> FALSE, tags |-> <<>>,
               desc |-> 0, html |-> <<>>]}

\* const fallback = () => {...}
fallback(title, company, html) ==
  [html |-> "fallback", tags |-> extractTags(title, company, html), usedAI |-> FALSE]

\* htmlOut of lines 603-610, then sanitizeHtml(htmlOut)
htmlOut(reply) ==
  LET first == IF reply.html = <<>> THEN section(reply.desc) ELSE reply.html
      stripped == stripDocumentTags(first)
  IN sanitizeHtml(IF length(stripped) < MinHtml THEN section(reply.desc) ELSE stripped)

\* Variant: the catch block reports the fallback content as model output.
rewriteJobRichSettled_catchUsedAI(title, company, html, reply) ==
  IF reply.threw
  THEN [fallback(title, company, html) EXCEPT !.usedAI = TRUE]
  ELSE [html |-> IF htmlOut(reply) = <<>> THEN "" ELSE "ai",
        tags |-> uniqNormTags(IF reply.parsed THEN reply.tags
                              ELSE extractTags(title, company, html)),
        usedAI |-> TRUE]

\* rewriteJobRich from the point where the model call has settled; the
\* html of the result is "" when nothing is left of it, "ai" otherwise.
rewriteJobRichSettled(title, company, html, reply) ==
  IF reply.threw
  THEN fallback(title, company, html)
  ELSE [html |-> IF htmlOut(reply) = <<>> THEN "" ELSE "ai",
        tags |-> uniqNormTags(IF reply.parsed THEN reply.tags
                              ELSE extractTags(title, company, html)),
        usedAI |-> TRUE]

\* ------------------------------------------------------------------ fallback content
\* s.split(/[Sep]+/): the pieces of s between the runs of symbols of Sep
splitRuns(s, Sep) ==
  LET at == [n \in 1..Len(s) |-> n]
      starts == SelectSeq(at, LAMBDA n : s[n] \in Sep /\ (n = 1 \/ s[n - 1] \notin Sep))
      ends == SelectSeq(at, LAMBDA n : s[n] \in Sep /\ (n = Len(s) \/ s[n + 1] \notin Sep))
  IN [k \in 1..(Len(starts) + 1) |->
        SubSeq(s, IF k = 1 THEN 1 ELSE ends[k - 1] + 1,
                  IF k = Len(starts) + 1 THEN Len(s) ELSE starts[k] - 1)]

\* txt.split(/\s+/)
splitWords(txt) == splitRuns(txt, Whitespace)

\* words.join(' ')
RECURSIVE joinWords(_)
joinWords(words) ==
  IF words = <<>> THEN <<>>
  ELSE IF Len(words) = 1 THEN Head(words)
  ELSE Head(words) \o <<" ">> \o joinWords(Tail(words))

truncateWords(txt, n) ==
  LET words == splitWords(txt)
  IN IF Len(words) <= n THEN txt
     ELSE Append(joinWords(SubSeq(words, 1, n)), "...")

ShortWords == 45
MaxParagraphs == 6

\* plain.split(/\n+/)
splitLines(plain) == splitRuns(plain, {"\n"})

\* .map(p => `<p>${escapeHtml(p)}</p>`).join('\n')
RECURSIVE joinParagraphs(_)
joinParagraphs(ps) ==
  IF ps = <<>> THEN <<>>
  ELSE <<"<p>">> \o escapeHtml(Head(ps)) \o <<"</p>">> \o
       (IF Len(ps) = 1 THEN <<>> ELSE <<"\n">> \o joinParagraphs(Tail(ps)))

\* plain.split(/\n+/).filter(Boolean).slice(0, 6).map(...).join('\n')
paragraphs(plain) ==
  LET ps == SelectSeq(splitLines(plain), NonEmpty)
  IN joinParagraphs(SubSeq(ps, 1, IF Len(ps) < MaxParagraphs THEN Len(ps)
                                  ELSE MaxParagraphs))

\* The headings of the template, in its order (accents left out).
Headings ==
  <<"Sobre a Vaga", "Responsabilidades", "Requisitos", "Beneficios",
    "Remuneracao", "Local e Horario", "Como se Candidatar">>

\* What the template puts under each heading but the first.
Bodies ==
  <<"", "<ul><li>Executar as atividades principais conforme descrito.</li></ul>",
    "<ul><li>Experiencia relevante ou disposicao para aprender.</li></ul>",
    "<ul><li>Beneficios conforme descricao da vaga.</li></ul>",
    "<p>A ser discutida.</p>", "<p>Conforme descricao da vaga.</p>",
    "<p>Use o botao Candidatar-se.</p>">>

RECURSIVE fixedSections(_)
fixedSections(n) ==
  IF n > Len(Headings) THEN <<>>
  ELSE <<"\n", "\n", "<section>", "<h2>", Headings[n], "</h2>", "\n", Bodies[n],
         "\n", "</section>">> \o fixedSections(n + 1)

\* const fallbackHTML = `...`.trim()
fallbackHTML(plain) ==
  LET ps == paragraphs(plain)
  IN <<"<section>", "<h2>", Headings[1], "</h2>">>
     \o (IF ps = <<>> THEN <<"<p>", "Detalhes fornecidos pelo empregador.", "</p>">>
         ELSE ps)
     \o <<"</section>">> \o fixedSections(2)

\* /<script\b[^<]*(?:(?!<\/script>)<[^<]*)*<\/script>/gi : a script element
\* goes, from its start tag to the first end tag after it
RECURSIVE dropScripts(_)
dropScripts(s) ==
  LET open == firstOf(s, {"<script>"})
      after == SubSeq(s, open + 1, Len(s))
      close == firstOf(after, {"</script>"})
  IN IF open = 0 \/ close = 0 THEN s
     ELSE SubSeq(s, 1, open - 1) \o dropScripts(SubSeq(after, close + 1, Len(after)))

\* /<\/?(?:iframe|object|embed|link|style|noscript)\b[^>]*>/gi
Embedding(c) == c = "<style>"

NotEmbedding(c) == ~Embedding(c)

\* text that starts like an event handler or a javascript: reference:
\* \son\w+\s*=\s*  and  \s(href|src)\s*=\s*javascript:
AttrStarts == {" onx=", " src=javascript:"}

\* [^\s>]+ takes a symbol whole when it holds neither whitespace nor '>'
Solid(c) == c \notin Whitespace \cup TagSymbols \cup AttrStarts \cup {">"}

NotSolid(c) == ~Solid(c)

\* the rest of s once [^\s>]+ has taken what it can: whole symbols, then a
\* tag up to its '>'
afterValue(s) ==
  LET stop == firstOf(s, {c \in {s[n] : n \in 1..Len(s)} : NotSolid(c)})
      rest == SubSeq(s, stop, Len(s))
  IN IF stop = 0 THEN <<>>
     ELSE IF s[stop] \in TagSymbols THEN <<">">> \o Tail(rest)
     ELSE rest

\* /\son\w+\s*=\s*[^\s>]+/gi and /\s(href|src)\s*=\s*javascript:[^\s>]+/gi.
\* The forms with a quoted value need a quote, which no symbol holds.
RECURSIVE dropAttributes(_)
dropAttributes(s) ==
  LET start == firstOf(s, AttrStarts)
      value == trimStart(SubSeq(s, start + 1, Len(s)))
      solid == value # <<>> /\ Head(value) # ">"
      taken == IF Head(value) \in AttrStarts THEN afterValue(Tail(value))
               ELSE afterValue(value)
  IN IF start = 0 THEN s
     ELSE IF solid THEN SubSeq(s, 1, start - 1) \o dropAttributes(taken)
     ELSE SubSeq(s, 1, start) \o dropAttributes(SubSeq(s, start + 1, Len(s)))

\* sanitizeHtml on a text of symbols
sanitizeText(html) ==
  dropAttributes(SelectSeq(dropScripts(html), NotEmbedding))

\* ------------------------------------------------------------------ state
VARIABLES
  FEED_RUNNING,     \* let FEED_RUNNING = false
  db,               \* jobs.db
  feed,             \* the items of the document served at FEED_URL
  HAS_OPENAI, AI_PROCESS_LIMIT, MAX_JOBS,   \* process.env, read once
  main,             \* per run: where the body of processFeed stands
  promise,          \* per run: the promise awaited after stream.pipe(parser)
  error,            \* per run: the first rejection reason
  hpc,              \* per run: where the parser and its 'end' handler stand
  processed, matched, skipped, aiEnhanced, fallbackUsed,
  batch, processedBatch, i,
  status,           \* per run: response.ok of the fetch
  fetches,          \* per run: calls of fetch(FEED_URL)
  aiCalls,          \* per run: calls of openai.chat.completions.create
  commits,          \* per run: insertBatch calls that committed
  fault,            \* per run: the statement at which insertBatch threw, -1 if none
  trace,            \* per run: what the closetag handler did with each item
  aiThrows,         \* per run: model calls that threw
  callNo,           \* per slot: the number of the call it holds
  calls,            \* calls of processFeed that got past the guard
  stored,           \* the jobs table at each return of processFeed, by call
  skips,            \* processFeed calls that returned at 'already running'
  posts,            \* POST /post-job requests handled
  tagsArg, tagsRet, \* a call of uniqNormTags or extractTags: its argument and its result
  kills,            \* times the process was killed and started again
  richArg, richRet, \* calls of rewriteJobRich: the input and the results
  returned,         \* what the calls of processFeed returned, by how they ended
  profArg, profRet, \* a call of matchesProfession: its input and its result
  locArg, locRet,   \* a call of inferJobLocations: its input and its result
  events, handled,  \* the events sax emits for a document, and how many are handled
  currentItem, currentTag, currentText,   \* let currentItem, currentTag, currentText
  opened,           \* the elements that are open, each with the text directly inside it
  assigned,         \* the assignments to fields of currentItem, with the element's own text
  closedItems       \* job and item elements closed so far

config == <<feed, HAS_OPENAI, AI_PROCESS_LIMIT, MAX_JOBS>>
parsing == <<events, handled, currentItem, currentTag, currentText, opened, assigned,
             closedItems>>
probe == <<profArg, profRet, locArg, locRet, parsing>>
aside == <<posts, tagsArg, tagsRet, kills, richArg, richRet, probe>>
counters == <<processed, matched, skipped, trace>>
loopvars == <<aiEnhanced, fallbackUsed, processedBatch, i, aiCalls, aiThrows, commits, fault>>
vars == <<FEED_RUNNING, db, config, aside, returned, main, promise, error, hpc, counters, batch,
          loopvars, status, fetches, callNo, calls, stored, skips>>

\* No call of processFeed has returned yet.
NoReturns == [skipped |-> {}, completed |-> {}]

\* No document is being parsed.
NotParsing ==
  /\ events = <<>>
  /\ handled = 0
  /\ currentItem = <<>>
  /\ currentTag = ""
  /\ currentText = <<>>
  /\ opened = <<>>
  /\ assigned = <<>>
  /\ closedItems = 0

\* No function of the module is being called on its own.
Unprobed ==
  /\ profArg = <<>>
  /\ profRet = <<>>
  /\ locArg = <<>>
  /\ locRet = <<>>
  /\ NotParsing

Guids == {<<"a">>, <<"b">>}
Titles == {<<"k">>, <<"k", "x">>, <<"x">>}
PubDates == {1000}
Items == [guid : Guids, link : {<<>>}, title : Titles, company : {<<>>},
          description : {<<>>}, pubDate : PubDates]
Feeds == UNION {[1..n -> Items] : n \in 0..MaxFeed}

\* Guids are opaque to every operation, so a feed and the feed with its
\* guids renamed behave alike: the first item's guid is fixed.
Init ==
  /\ FEED_RUNNING = FALSE
  /\ db = EmptyDb
  /\ feed \in Feeds
  /\ IF feed = <<>> THEN TRUE ELSE feed[1].guid = <<"a">>
  /\ HAS_OPENAI = TRUE
  /\ AI_PROCESS_LIMIT = 1
  /\ MAX_JOBS = 1
  /\ main = [r \in Runs |-> "idle"]
  /\ promise = [r \in Runs |-> "pending"]
  /\ error = [r \in Runs |-> "none"]
  /\ hpc = [r \in Runs |-> "none"]
  /\ processed = [r \in Runs |-> 0]
  /\ matched = [r \in Runs |-> 0]
  /\ skipped = [r \in Runs |-> 0]
  /\ aiEnhanced = [r \in Runs |-> 0]
  /\ fallbackUsed = [r \in Runs |-> 0]
  /\ batch = [r \in Runs |-> <<>>]
  /\ processedBatch = [r \in Runs |-> <<>>]
  /\ i = [r \in Runs |-> 0]
  /\ status = [r \in Runs |-> "none"]
  /\ fetches = [r \in Runs |-> 0]
  /\ aiCalls = [r \in Runs |-> 0]
  /\ commits = [r \in Runs |-> 0]
  /\ fault = [r \in Runs |-> -1]
  /\ trace = [r \in Runs |-> <<>>]
  /\ aiThrows = [r \in Runs |-> 0]
  /\ callNo = [r \in Runs |-> 0]
  /\ calls = 0
  /\ stored = <<>>
  /\ skips = 0
  /\ posts = 0
  /\ tagsArg = <<>>
  /\ tagsRet = <<>>
  /\ richArg = <<>>
  /\ richRet = <<>>
  /\ kills = 0
  /\ returned = NoReturns
  /\ Unprobed

\* ------------------------------------------------------------------ event loop
\* The continuation of processFeed after its awaited promise has settled.
MainReady(r) == main[r] = "await" /\ promise[r] # "pending"

\* The call has settled and its parser and 'end' handler have nothing left
\* to run: nothing refers to the locals of the call any more.
Unreachable(r) ==
  /\ main[r] \in {"returned", "rejected"}
  /\ hpc[r] \in {"finished", "unpiped", "threw"}

NoGarbage == \A r \in Runs : ~Unreachable(r)

\* No promise continuation is queued: timers, sockets and requests may run.
NoMicrotask ==
  /\ NoGarbage
  /\ \A r \in Runs : ~MainReady(r) /\ hpc[r] # "fbwait"

\* resolve() and reject(err): only the first call settles the promise
settle(p, how) == IF p = "pending" THEN how ELSE p

\* Variant: the limit test admits one call more.
shouldUseAI_offByOne(enhanced) == AI_PROCESS_LIMIT = 0 \/ enhanced <= AI_PROCESS_LIMIT

\* const shouldUseAI = (AI_PROCESS_LIMIT === 0) || (aiEnhanced < AI_PROCESS_LIMIT)
shouldUseAI(enhanced) == AI_PROCESS_LIMIT = 0 \/ enhanced < AI_PROCESS_LIMIT

\* if (!HAS_OPENAI || !useAI || !openai) return fallback()
callsModel(useAI) == HAS_OPENAI /\ useAI

\* Variant: the early return passes through the finally block.
alreadyRunning_viaFinally ==
  /\ skips < MaxSkips
  /\ skips' = skips + 1
  /\ FEED_RUNNING' = FALSE
  /\ returned' = [returned EXCEPT !.skipped = @ \cup {"undefined"}]
  /\ UNCHANGED <<db, config, aside, main, promise, error, hpc, counters,
                 batch, loopvars, status, fetches, callNo, calls, stored>>

\* ------------------------------------------------------------------ processFeed
\* if (FEED_RUNNING) { console.log(...); return; }  The call returns
\* undefined.
alreadyRunning ==
  /\ skips < MaxSkips
  /\ skips' = skips + 1
  /\ returned' = [returned EXCEPT !.skipped = @ \cup {"undefined"}]
  /\ UNCHANGED <<FEED_RUNNING, db, config, aside, main, promise, error, hpc, counters,
                 batch, loopvars, status, fetches, callNo, calls, stored>>

\* A slot holds the locals of one call of processFeed; it is free once the
\* call has settled and its parser and 'end' handler have nothing left to run.
Free(r) ==
  /\ main[r] \in {"idle", "returned", "rejected"}
  /\ hpc[r] \in {"none", "gone"}

\* A call of processFeed, by the startup code, the cron timer or GET /fetch,
\* up to its first await: the guard, then fetch(FEED_URL).  The locals of
\* the call (lines 665-685) start afresh.
processFeed ==
  /\ NoMicrotask
  /\ IF FEED_RUNNING THEN alreadyRunning
     ELSE IF FEED_URL = <<>> THEN UNCHANGED vars
     ELSE \E r \in Runs :
            /\ Free(r)
            /\ \A q \in 1..(r - 1) : ~Free(q)
            /\ calls < MaxRuns
            /\ calls' = calls + 1
            /\ FEED_RUNNING' = TRUE
            /\ main' = [main EXCEPT ![r] = "fetch"]
            /\ fetches' = [fetches EXCEPT ![r] = 1]
            /\ promise' = [promise EXCEPT ![r] = "pending"]
            /\ error' = [error EXCEPT ![r] = "none"]
            /\ hpc' = [hpc EXCEPT ![r] = "none"]
            /\ processed' = [processed EXCEPT ![r] = 0]
            /\ matched' = [matched EXCEPT ![r] = 0]
            /\ skipped' = [skipped EXCEPT ![r] = 0]
            /\ aiEnhanced' = [aiEnhanced EXCEPT ![r] = 0]
            /\ fallbackUsed' = [fallbackUsed EXCEPT ![r] = 0]
            /\ batch' = [batch EXCEPT ![r] = <<>>]
            /\ processedBatch' = [processedBatch EXCEPT ![r] = <<>>]
            /\ i' = [i EXCEPT ![r] = 0]
            /\ status' = [status EXCEPT ![r] = "none"]
            /\ aiCalls' = [aiCalls EXCEPT ![r] = 0]
            /\ aiThrows' = [aiThrows EXCEPT ![r] = 0]
            /\ commits' = [commits EXCEPT ![r] = 0]
            /\ fault' = [fault EXCEPT ![r] = -1]
            /\ trace' = [trace EXCEPT ![r] = <<>>]
            /\ callNo' = [callNo EXCEPT ![r] = calls + 1]
            /\ UNCHANGED <<db, config, aside, returned, stored, skips>>

\* await fetch(FEED_URL) settles.  node-fetch rejects on a network error
\* only; a response with an HTTP error status resolves like any other.
fetchSettles(r) ==
  /\ NoMicrotask
  /\ main[r] = "fetch"
  /\ \E outcome \in {"ok", "http_error", "network_error"} :
       IF outcome = "network_error"
       THEN \* catch: throw error; finally: FEED_RUNNING = false
            /\ main' = [main EXCEPT ![r] = "rejected"]
            /\ error' = [error EXCEPT ![r] = "FetchError"]
            /\ FEED_RUNNING' = FALSE
            /\ UNCHANGED <<db, config, aside, returned, promise, hpc, counters, batch, loopvars,
                           status, fetches, callNo, calls, stored, skips>>
       ELSE \* stream.pipe(parser), then await new Promise(...)
            /\ status' = [status EXCEPT ![r] = outcome]
            /\ main' = [main EXCEPT ![r] = "await"]
            /\ hpc' = [hpc EXCEPT ![r] = "parsing"]
            /\ UNCHANGED <<FEED_RUNNING, db, config, aside, returned, promise, error, counters,
                           batch, loopvars, fetches, callNo, calls, stored, skips>>

RECURSIVE Digits(_)
Digits(n) == IF n < 10 THEN <<ToString(n)>> ELSE Append(Digits(n \div 10), ToString(n % 10))

\* const guid = currentItem.guid || currentItem.link || `job-${processed}`
resolveGuid(item, n) ==
  IF item.guid # <<>> THEN item.guid
  ELSE IF item.link # <<>> THEN item.link
  ELSE <<"j", "o", "b", "-">> \o Digits(n)

\* Variant: the profession test is left out.
classify_noProfessionTest(d, item, guid) ==
  IF stmtHasGuid(d, guid) # {} THEN "dup" ELSE "matched"

\* Variant: the stored-guid test is left out.
classify_noGuidTest(d, item, guid) ==
  IF ~matchesProfession(item.title, item.company, item.description) THEN "nomatch"
  ELSE "matched"

\* The two early returns of the closetag handler, in their order.
classify(d, item, guid) ==
  IF stmtHasGuid(d, guid) # {} THEN "dup"
  ELSE IF ~matchesProfession(item.title, item.company, item.description) THEN "nomatch"
  ELSE "matched"

\* Variant: an item whose guid is stored is not counted as skipped.
closetag_dupUncounted(r) ==
  /\ NoMicrotask
  /\ hpc[r] = "parsing"
  /\ processed[r] < Len(feed)
  /\ LET item == feed[processed[r] + 1]
         n == processed[r] + 1
         guid == resolveGuid(item, n)
         did == classify(db, item, guid)
     IN /\ processed' = [processed EXCEPT ![r] = n]
        /\ trace' = [trace EXCEPT ![r] =
                       Append(@, [guid |-> guid, had |-> stmtHasGuid(db, guid) # {},
                                  did |-> did])]
        /\ IF did = "matched"
           THEN /\ matched' = [matched EXCEPT ![r] = @ + 1]
                /\ batch' = [batch EXCEPT ![r] =
                               Append(@, [rawTitle |-> item.title,
                                          rawCompany |-> item.company,
                                          rawDescription |-> item.description,
                                          guid |-> guid,
                                          url |-> item.link,
                                          published_at |-> unixtime(item.pubDate)])]
                /\ UNCHANGED skipped
           ELSE /\ skipped' = [skipped EXCEPT ![r] = IF did = "dup" THEN @ ELSE @ + 1]
                /\ UNCHANGED <<matched, batch>>
  /\ UNCHANGED <<FEED_RUNNING, db, config, aside, returned, main, promise, error, hpc, loopvars,
                 status, fetches, callNo, calls, stored, skips>>

\* Variant: a matched item is put in front of the batch (unshift).
closetag_unshift(r) ==
  /\ NoMicrotask
  /\ hpc[r] = "parsing"
  /\ processed[r] < Len(feed)
  /\ LET item == feed[processed[r] + 1]
         n == processed[r] + 1
         guid == resolveGuid(item, n)
         did == classify(db, item, guid)
     IN /\ processed' = [processed EXCEPT ![r] = n]
        /\ trace' = [trace EXCEPT ![r] =
                       Append(@, [guid |-> guid, had |-> stmtHasGuid(db, guid) # {},
                                  did |-> did])]
        /\ IF did = "matched"
           THEN /\ matched' = [matched EXCEPT ![r] = @ + 1]
                /\ batch' = [batch EXCEPT ![r] =
                               <<[rawTitle |-> item.title,
                                  rawCompany |-> item.company,
                                  rawDescription |-> item.description,
                                  guid |-> guid,
                                  url |-> item.link,
                                  published_at |-> unixtime(item.pubDate)]>> \o @]
                /\ UNCHANGED skipped
           ELSE /\ skipped' = [skipped EXCEPT ![r] = @ + 1]
                /\ UNCHANGED <<matched, batch>>
  /\ UNCHANGED <<FEED_RUNNING, db, config, aside, returned, main, promise, error, hpc, loopvars,
                 status, fetches, callNo, calls, stored, skips>>

\* parser.on('closetag') for the close tag of a job or item element
closetag(r) ==
  /\ NoMicrotask
  /\ hpc[r] = "parsing"
  /\ processed[r] < Len(feed)
  /\ LET item == feed[processed[r] + 1]
         n == processed[r] + 1
         guid == resolveGuid(item, n)
         did == classify(db, item, guid)
     IN /\ processed' = [processed EXCEPT ![r] = n]
        /\ trace' = [trace EXCEPT ![r] =
                       Append(@, [guid |-> guid, had |-> stmtHasGuid(db, guid) # {},
                                  did |-> did])]
        /\ IF did = "matched"
           THEN /\ matched' = [matched EXCEPT ![r] = @ + 1]
                /\ batch' = [batch EXCEPT ![r] =
                               Append(@, [rawTitle |-> item.title,
                                          rawCompany |-> item.company,
                                          rawDescription |-> item.description,
                                          guid |-> guid,
                                          url |-> item.link,
                                          published_at |-> unixtime(item.pubDate)])]
                /\ UNCHANGED skipped
           ELSE /\ skipped' = [skipped EXCEPT ![r] = @ + 1]
                /\ UNCHANGED <<matched, batch>>
  /\ UNCHANGED <<FEED_RUNNING, db, config, aside, returned, main, promise, error, hpc, loopvars,
                 status, fetches, callNo, calls, stored, skips>>

\* The head of one iteration of the enrichment loop: shouldUseAI, then the
\* call of rewriteJobRich up to its await (a model call or none).
startIteration(r, enhanced, issued) ==
  IF callsModel(shouldUseAI(enhanced))
  THEN /\ hpc' = [hpc EXCEPT ![r] = "aiwait"]
       /\ aiCalls' = [aiCalls EXCEPT ![r] = issued + 1]
  ELSE /\ hpc' = [hpc EXCEPT ![r] = "fbwait"]
       /\ aiCalls' = [aiCalls EXCEPT ![r] = issued]

\* Variant: resolve() is called before the loop instead of after it.
onEnd_resolveFirst(r, p) ==
  IF batch[r] = <<>>
  THEN /\ promise' = [promise EXCEPT ![r] = settle(p, "resolved")]
       /\ hpc' = [hpc EXCEPT ![r] = "finished"]
       /\ UNCHANGED <<i, aiCalls>>
  ELSE /\ promise' = [promise EXCEPT ![r] = settle(p, "resolved")]
       /\ i' = [i EXCEPT ![r] = 1]
       /\ startIteration(r, aiEnhanced[r], aiCalls[r])

\* parser.on('end', async () => {...}) up to its first await; p is the
\* state of the awaited promise when the handler is entered.
onEnd(r, p) ==
  IF batch[r] = <<>>
  THEN /\ promise' = [promise EXCEPT ![r] = settle(p, "resolved")]
       /\ hpc' = [hpc EXCEPT ![r] = "finished"]
       /\ UNCHANGED <<i, aiCalls>>
  ELSE /\ promise' = [promise EXCEPT ![r] = p]
       /\ i' = [i EXCEPT ![r] = 1]
       /\ startIteration(r, aiEnhanced[r], aiCalls[r])

\* The source stream ends and pipe calls parser.end().  For a document cut
\* short sax reports 'Unclosed root tag' (reject) and then emits 'end' all
\* the same.
parserEnd(r) ==
  /\ NoMicrotask
  /\ hpc[r] = "parsing"
  /\ \E truncated \in BOOLEAN :
       /\ ~truncated => processed[r] = Len(feed)
       /\ error' = [error EXCEPT ![r] = IF truncated THEN "ParseError" ELSE @]
       /\ onEnd(r, IF truncated THEN settle(promise[r], "rejected") ELSE promise[r])
  /\ UNCHANGED <<FEED_RUNNING, db, config, aside, returned, main, counters, batch, aiEnhanced,
                 fallbackUsed, processedBatch, aiThrows, commits, fault, status,
                 fetches, callNo, calls, stored, skips>>

\* parser.on('error') for an error inside the document: console.error and
\* reject; pipe unpipes the source from a destination that emitted 'error',
\* so the parser gets no more data and no end().
parserError(r) ==
  /\ NoMicrotask
  /\ hpc[r] = "parsing"
  /\ promise' = [promise EXCEPT ![r] = settle(@, "rejected")]
  /\ error' = [error EXCEPT ![r] = "ParseError"]
  /\ hpc' = [hpc EXCEPT ![r] = "unpiped"]
  /\ UNCHANGED <<FEED_RUNNING, db, config, aside, returned, main, counters, batch, loopvars,
                 status, fetches, callNo, calls, stored, skips>>

\* stream.on('error', reject): the response body fails
streamError(r) ==
  /\ NoMicrotask
  /\ hpc[r] = "parsing"
  /\ promise' = [promise EXCEPT ![r] = settle(@, "rejected")]
  /\ error' = [error EXCEPT ![r] = "StreamError"]
  /\ hpc' = [hpc EXCEPT ![r] = "unpiped"]
  /\ UNCHANGED <<FEED_RUNNING, db, config, aside, returned, main, counters, batch, loopvars,
                 status, fetches, callNo, calls, stored, skips>>

\* mkSlug(`${title}-${company}`) || mkSlug(title) || mkSlug(guid)
jobSlug(rawJob) ==
  LET a == mkSlug(rawJob.rawTitle \o <<"-">> \o rawJob.rawCompany)
      b == mkSlug(rawJob.rawTitle)
  IN IF a # <<>> THEN a ELSE IF b # <<>> THEN b ELSE mkSlug(rawJob.guid)

\* processedBatch.push({...}); the columns source, company, description_short
\* and url play no part in any write decision and are left out.
candidate(rawJob, res) ==
  [guid |-> rawJob.guid,
   title |-> IF rawJob.rawTitle = <<>> THEN <<"U", "n", "t", "i", "t", "l", "e", "d">>
             ELSE rawJob.rawTitle,
   description_html |-> res.html,
   published_at |-> rawJob.published_at,
   slug |-> jobSlug(rawJob),
   tags_csv |-> join(res.tags)]

\* The enrichment loop from the return of `await rewriteJobRich` to the next
\* await: counters, processedBatch.push, the flush of a full batch, then
\* either the next iteration or the last flush and resolve().  An exception
\* of insertBatch leaves the async handler: nothing catches it, resolve and
\* reject are never called.
loopBody(r, res, flt) ==
  LET rawJob == batch[r][i[r]]
      enhanced == IF res.usedAI THEN aiEnhanced[r] + 1 ELSE aiEnhanced[r]
      pb == Append(processedBatch[r], candidate(rawJob, res))
      last == i[r] = Len(batch[r])
      flush == Len(pb) >= batchSize \/ last
      tx == insertBatch(db, pb, flt)
  IN /\ flush \/ flt = -1
     /\ aiEnhanced' = [aiEnhanced EXCEPT ![r] = enhanced]
     /\ fallbackUsed' = [fallbackUsed EXCEPT ![r] = IF res.usedAI THEN @ ELSE @ + 1]
     /\ IF flush /\ ~tx.ok
        THEN /\ db' = tx.db
             /\ fault' = [fault EXCEPT ![r] = flt]
             /\ hpc' = [hpc EXCEPT ![r] = "threw"]
             /\ processedBatch' = [processedBatch EXCEPT ![r] = pb]
             /\ UNCHANGED <<promise, i, aiCalls, commits>>
        ELSE /\ flt = -1
             /\ db' = IF flush THEN tx.db ELSE db
             /\ processedBatch' = [processedBatch EXCEPT ![r] = IF flush THEN <<>> ELSE pb]
             /\ commits' = [commits EXCEPT ![r] = IF flush THEN @ + 1 ELSE @]
             /\ i' = [i EXCEPT ![r] = @ + 1]
             /\ UNCHANGED fault
             /\ IF last
                THEN /\ promise' = [promise EXCEPT ![r] = settle(@, "resolved")]
                     /\ hpc' = [hpc EXCEPT ![r] = "finished"]
                     /\ UNCHANGED aiCalls
                ELSE /\ startIteration(r, enhanced, aiCalls[r])
                     /\ UNCHANGED promise

\* The model call of the current item settles.
aiSettles(r) ==
  /\ NoMicrotask
  /\ hpc[r] = "aiwait"
  /\ \E reply \in AiReplies, flt \in -1..MaxFault :
       LET rawJob == batch[r][i[r]]
       IN /\ aiThrows' = [aiThrows EXCEPT ![r] = IF reply.threw THEN @ + 1 ELSE @]
          /\ loopBody(r, rewriteJobRichSettled(rawJob.rawTitle, rawJob.rawCompany,
                                               rawJob.rawDescription, reply), flt)
  /\ UNCHANGED <<FEED_RUNNING, config, aside, returned, main, error, counters, batch, status,
                 fetches, callNo, calls, stored, skips>>

\* rewriteJobRich returned fallback() without a model call; the loop goes on
\* in a microtask, behind the continuation of processFeed if that is queued.
fallbackContinues(r) ==
  /\ NoGarbage
  /\ hpc[r] = "fbwait"
  /\ ~MainReady(r)
  /\ \E flt \in -1..MaxFault :
       LET rawJob == batch[r][i[r]]
       IN loopBody(r, fallback(rawJob.rawTitle, rawJob.rawCompany,
                               rawJob.rawDescription), flt)
  /\ UNCHANGED <<FEED_RUNNING, config, aside, returned, main, error, counters, batch, status,
                 fetches, aiThrows, callNo, calls, stored, skips>>

\* const total = getCachedCount(0); if (total > MAX_JOBS) stmtDeleteOld.run(MAX_JOBS)
retentionTrim(d) ==
  IF Cardinality(d.jobs) > MAX_JOBS THEN stmtDeleteOld(d, MAX_JOBS) ELSE d

\* processFeed after its awaited promise has settled: the trim and the
\* return, or catch and rethrow; finally FEED_RUNNING = false.  The body
\* ends without a return statement: the call returns undefined.
mainContinues(r) ==
  /\ NoGarbage
  /\ MainReady(r)
  /\ FEED_RUNNING' = FALSE
  /\ IF promise[r] = "resolved"
     THEN /\ db' = retentionTrim(db)
          /\ main' = [main EXCEPT ![r] = "returned"]
          /\ stored' = Append(stored, [call |-> callNo[r], jobs |-> db'.jobs])
          /\ returned' = [returned EXCEPT !.completed = @ \cup {"undefined"}]
     ELSE /\ main' = [main EXCEPT ![r] = "rejected"]
          /\ UNCHANGED <<db, stored, returned>>
  /\ UNCHANGED <<config, aside, promise, error, hpc, counters, batch, loopvars, status,
                 fetches, callNo, calls, skips>>

\* The locals of a call (lines 665-685) end with the last closure that
\* refers to them; what stays is how the call settled.
scopeExit(r) ==
  /\ Unreachable(r)
  /\ hpc' = [hpc EXCEPT ![r] = "gone"]
  /\ promise' = [promise EXCEPT ![r] = "pending"]
  /\ processed' = [processed EXCEPT ![r] = 0]
  /\ matched' = [matched EXCEPT ![r] = 0]
  /\ skipped' = [skipped EXCEPT ![r] = 0]
  /\ aiEnhanced' = [aiEnhanced EXCEPT ![r] = 0]
  /\ fallbackUsed' = [fallbackUsed EXCEPT ![r] = 0]
  /\ batch' = [batch EXCEPT ![r] = <<>>]
  /\ processedBatch' = [processedBatch EXCEPT ![r] = <<>>]
  /\ i' = [i EXCEPT ![r] = 0]
  /\ status' = [status EXCEPT ![r] = "none"]
  /\ fetches' = [fetches EXCEPT ![r] = 0]
  /\ aiCalls' = [aiCalls EXCEPT ![r] = 0]
  /\ aiThrows' = [aiThrows EXCEPT ![r] = 0]
  /\ commits' = [commits EXCEPT ![r] = 0]
  /\ fault' = [fault EXCEPT ![r] = -1]
  /\ trace' = [trace EXCEPT ![r] = <<>>]
  /\ UNCHANGED <<FEED_RUNNING, db, config, aside, returned, main, error, callNo, calls, stored, skips>>

step(r) ==
  \/ fetchSettles(r)
  \/ closetag(r)
  \/ parserEnd(r)
  \/ parserError(r)
  \/ streamError(r)
  \/ aiSettles(r)
  \/ fallbackContinues(r)
  \/ mainContinues(r)
  \/ scopeExit(r)

Next == processFeed \/ \E r \in Runs : step(r)

Spec == Init /\ [][Next]_vars

\* The event loop runs every continuation and event that is ready; the
\* fetch and the model calls settle.
FairSpec == Spec /\ \A r \in Runs : WF_vars(step(r))

\* ------------------------------------------------------------------ other environments
\* The memory of a process that has just started: line 642 and no call of
\* processFeed yet.
Booted ==
  /\ FEED_RUNNING = FALSE
  /\ main = [r \in Runs |-> "idle"]
  /\ promise = [r \in Runs |-> "pending"]
  /\ error = [r \in Runs |-> "none"]
  /\ hpc = [r \in Runs |-> "none"]
  /\ processed = [r \in Runs |-> 0]
  /\ matched = [r \in Runs |-> 0]
  /\ skipped = [r \in Runs |-> 0]
  /\ aiEnhanced = [r \in Runs |-> 0]
  /\ fallbackUsed = [r \in Runs |-> 0]
  /\ batch = [r \in Runs |-> <<>>]
  /\ processedBatch = [r \in Runs |-> <<>>]
  /\ i = [r \in Runs |-> 0]
  /\ status = [r \in Runs |-> "none"]
  /\ fetches = [r \in Runs |-> 0]
  /\ aiCalls = [r \in Runs |-> 0]
  /\ commits = [r \in Runs |-> 0]
  /\ fault = [r \in Runs |-> -1]
  /\ trace = [r \in Runs |-> <<>>]
  /\ aiThrows = [r \in Runs |-> 0]
  /\ callNo = [r \in Runs |-> 0]

\* Feeds of MaxFeed matching items with different guids.
LimitFeeds ==
  {f \in Feeds : /\ Len(f) = MaxFeed
                 /\ f[1].guid = <<"a">>
                 /\ \A n \in 1..Len(f) : f[n].title = <<"k">>
                 /\ \A m, n \in 1..Len(f) : f[m].guid = f[n].guid => m = n}

\* The process started with AI_PROCESS_LIMIT unset (0: unlimited) or 1, and
\* with or without OPENAI_API_KEY.
InitLimit ==
  /\ Booted
  /\ db = EmptyDb
  /\ feed \in LimitFeeds
  /\ HAS_OPENAI \in BOOLEAN
  /\ AI_PROCESS_LIMIT \in {0, 1}
  /\ MAX_JOBS = 1
  /\ calls = 0
  /\ stored = <<>>
  /\ skips = 0
  /\ posts = 0
  /\ tagsArg = <<>>
  /\ tagsRet = <<>>
  /\ richArg = <<>>
  /\ richRet = <<>>
  /\ kills = 0
  /\ returned = NoReturns
  /\ Unprobed

SpecLimit == InitLimit /\ [][Next]_vars

RetentionDates == {1000, 2000}

\* Feeds of two matching items with different guids and slugs, each
\* published at either date.
RetentionFeeds ==
  {<<[guid |-> <<"a">>, link |-> <<>>, title |-> <<"k">>, company |-> <<>>,
      description |-> <<>>, pubDate |-> d1],
     [guid |-> <<"b">>, link |-> <<>>, title |-> <<"k", "x">>, company |-> <<>>,
      description |-> <<>>, pubDate |-> d2]>> : d1, d2 \in RetentionDates}

\* The process started with MAX_JOBS below or at the size of the feed.
InitRetention ==
  /\ Booted
  /\ db = EmptyDb
  /\ feed \in RetentionFeeds
  /\ HAS_OPENAI = TRUE
  /\ AI_PROCESS_LIMIT = 1
  /\ MAX_JOBS \in {1, 2}
  /\ calls = 0
  /\ stored = <<>>
  /\ skips = 0
  /\ posts = 0
  /\ tagsArg = <<>>
  /\ tagsRet = <<>>
  /\ richArg = <<>>
  /\ richRet = <<>>
  /\ kills = 0
  /\ returned = NoReturns
  /\ Unprobed

SpecRetention == InitRetention /\ [][Next]_vars

\* [...new Set(tags)]
RECURSIVE unique(_)
unique(tags) ==
  IF tags = <<>> THEN <<>>
  ELSE LET front == unique(SubSeq(tags, 1, Len(tags) - 1))
           t == tags[Len(tags)]
       IN IF \E n \in 1..Len(front) : front[n] = t THEN front ELSE Append(front, t)

PostTimes == {3000}

\* `<p>Position at ${escapeHtml(company)}</p>`
positionAt(company) ==
  <<"<", "p", ">", "P", "o", "s", "i", "t", "i", "o", "n", " ", "a", "t", " ">>
    \o company \o <<"<", "/", "p", ">">>

\* app.post('/post-job'): the handler from the return of rewriteJobRich, or
\* the whole handler when a description was given (no await).  The guid is
\* `manual-${Date.now()}-${random}`; the model numbers the requests instead.
\* The form's tags field is left empty.  Nothing before the await writes.
postJob ==
  /\ NoMicrotask
  /\ posts < MaxPosts
  /\ \E now \in PostTimes, described \in BOOLEAN, reply \in AiReplies :
       LET title == <<"k">>
           company == <<"x">>
           guid == <<"m">> \o Digits(posts + 1)
           res == IF ~callsModel(TRUE)
                  THEN fallback(title, company, positionAt(company))
                  ELSE rewriteJobRichSettled(title, company, positionAt(company), reply)
           finalHtml == IF described THEN "manual" ELSE res.html
           finalTags == IF described
                        THEN unique(extractTags(title, company, <<"k">>))
                        ELSE unique(res.tags)
           a == mkSlug(title \o <<"-">> \o company \o <<"-">> \o Digits(now))
           job == [guid |-> guid,
                   title |-> title,
                   description_html |-> finalHtml,
                   published_at |-> now \div 1000,
                   slug |-> IF a # <<>> THEN a ELSE mkSlug(guid),
                   tags_csv |-> join(uniqNormTags(finalTags))]
           d1 == stmtInsertJob(db, job)
           inserted == stmtHasGuid(d1, guid)
       IN /\ described => reply = CHOOSE x \in AiReplies : TRUE
          /\ db' = IF inserted = {} THEN d1
                   ELSE upsertTagsForJob([db |-> d1, left |-> -1, ok |-> TRUE],
                                         (CHOOSE x \in inserted : TRUE).id, finalTags).db
  /\ posts' = posts + 1
  /\ UNCHANGED <<FEED_RUNNING, config, tagsArg, tagsRet, kills, richArg,
                 richRet, probe, returned, main, promise, error, hpc,
                 counters, batch, loopvars, status, fetches, callNo, calls, stored,
                 skips>>

\* Documents with one item of guid a: the employer edits the vacancy.
SiteFeeds ==
  {f \in Feeds : Len(f) = 1 /\ f[1].guid = <<"a">> /\ f[1].title # <<"x">>}

\* The server at FEED_URL publishes another document; a response that is
\* being parsed keeps the document it was fetched with.
feedChanges ==
  /\ NoMicrotask
  /\ \A r \in Runs : hpc[r] # "parsing"
  /\ feed' \in SiteFeeds \ {feed}
  /\ UNCHANGED <<FEED_RUNNING, db, HAS_OPENAI, AI_PROCESS_LIMIT, MAX_JOBS, aside, returned, main,
                 promise, error, hpc, counters, batch, loopvars, status, fetches,
                 callNo, calls, stored, skips>>

InitSite ==
  /\ Booted
  /\ db = EmptyDb
  /\ feed \in SiteFeeds
  /\ HAS_OPENAI \in BOOLEAN
  /\ AI_PROCESS_LIMIT = 1
  /\ MAX_JOBS = 1
  /\ calls = 0
  /\ stored = <<>>
  /\ skips = 0
  /\ posts = 0
  /\ tagsArg = <<>>
  /\ tagsRet = <<>>
  /\ richArg = <<>>
  /\ richRet = <<>>
  /\ kills = 0
  /\ returned = NoReturns
  /\ Unprobed

NextSite == Next \/ postJob \/ feedChanges

SpecSite == InitSite /\ [][NextSite]_vars

\* The process is killed and started again: what it held in memory is as
\* at the start, jobs.db keeps every committed transaction.
kill ==
  /\ kills < MaxKills
  /\ \E r \in Runs : main[r] # "idle"
  /\ kills' = kills + 1
  /\ FEED_RUNNING' = FALSE
  /\ main' = [r \in Runs |-> "idle"]
  /\ promise' = [r \in Runs |-> "pending"]
  /\ error' = [r \in Runs |-> "none"]
  /\ hpc' = [r \in Runs |-> "none"]
  /\ processed' = [r \in Runs |-> 0]
  /\ matched' = [r \in Runs |-> 0]
  /\ skipped' = [r \in Runs |-> 0]
  /\ aiEnhanced' = [r \in Runs |-> 0]
  /\ fallbackUsed' = [r \in Runs |-> 0]
  /\ batch' = [r \in Runs |-> <<>>]
  /\ processedBatch' = [r \in Runs |-> <<>>]
  /\ i' = [r \in Runs |-> 0]
  /\ status' = [r \in Runs |-> "none"]
  /\ fetches' = [r \in Runs |-> 0]
  /\ aiCalls' = [r \in Runs |-> 0]
  /\ commits' = [r \in Runs |-> 0]
  /\ fault' = [r \in Runs |-> -1]
  /\ trace' = [r \in Runs |-> <<>>]
  /\ aiThrows' = [r \in Runs |-> 0]
  /\ callNo' = [r \in Runs |-> 0]
  /\ UNCHANGED <<db, config, posts, tagsArg, tagsRet, richArg, richRet, probe, returned,
                 calls, stored,
                 skips>>

\* Feeds of two matching items with different guids, with the same title
\* or not.
RestartFeeds ==
  {f \in Feeds : /\ Len(f) = 2
                 /\ f[1].guid = <<"a">> /\ f[2].guid = <<"b">>
                 /\ f[1].title = <<"k">>
                 /\ f[2].title # <<"x">>}

\* MAX_JOBS is the size of the feed: the trim removes nothing.
InitRestart ==
  /\ Booted
  /\ db = EmptyDb
  /\ feed \in RestartFeeds
  /\ HAS_OPENAI = TRUE
  /\ AI_PROCESS_LIMIT = 1
  /\ MAX_JOBS = 2
  /\ calls = 0
  /\ stored = <<>>
  /\ skips = 0
  /\ posts = 0
  /\ tagsArg = <<>>
  /\ tagsRet = <<>>
  /\ richArg = <<>>
  /\ richRet = <<>>
  /\ kills = 0
  /\ returned = NoReturns
  /\ Unprobed

NextRestart == Next \/ kill

SpecRestart == InitRestart /\ [][NextRestart]_vars

\* Tags as a caller may pass them: repeated in another case, padded with
\* blanks, empty, and more than eight different ones.
TagLine ==
  << <<"a">>, <<"A">>, <<" ", "a">>, <<>>, <<" ">>, <<"b">>, <<"g">>, <<"j">>,
     <<"k">>, <<"K", " ">>, <<"o">>, <<"x">>, <<"0">>, <<"1">>, <<"2">> >>

TagInputs ==
  {SubSeq(TagLine, m, n) : m \in 1..Len(TagLine), n \in 0..Len(TagLine)}

\* A call of uniqNormTags returns.
callUniqNormTags ==
  /\ tagsRet' = uniqNormTags(tagsArg)
  /\ UNCHANGED <<FEED_RUNNING, db, config, posts, tagsArg, kills, richArg, richRet,
                 probe, returned, main,
                 promise, error,
                 hpc, counters, batch, loopvars, status, fetches, callNo, calls,
                 stored, skips>>

InitTags ==
  /\ Booted
  /\ db = EmptyDb
  /\ feed = <<>>
  /\ HAS_OPENAI = TRUE
  /\ AI_PROCESS_LIMIT = 1
  /\ MAX_JOBS = 1
  /\ calls = 0
  /\ stored = <<>>
  /\ skips = 0
  /\ posts = 0
  /\ tagsArg \in TagInputs
  /\ tagsRet = <<>>
  /\ richArg = <<>>
  /\ richRet = <<>>
  /\ kills = 0
  /\ returned = NoReturns
  /\ Unprobed

NextTags == callUniqNormTags

SpecTags == InitTags /\ [][NextTags]_vars

\* Texts the model may return: each section present or not, the markup
\* long or short, with script elements and document tags or without.
HtmlSections ==
  UNION {[1..n -> {Para, Line, Script, Meta}] : n \in 0..2}

AiResponses ==
  [threw : {FALSE}, parsed : BOOLEAN, tags : {<< <<"a">> >>},
   desc : {0, 10}, html : HtmlSections]

\* The model path of rewriteJobRich returns.
callRewriteJobRich ==
  /\ richRet = <<>>
  /\ richRet' = <<rewriteJobRichSettled(richArg.title, <<>>, <<>>, richArg.reply)>>
  /\ UNCHANGED <<FEED_RUNNING, db, config, posts, tagsArg, tagsRet, kills, richArg,
                 probe, returned, main, promise, error, hpc, counters, batch, loopvars, status,
                 fetches, callNo, calls, stored, skips>>

InitReply ==
  /\ Booted
  /\ db = EmptyDb
  /\ feed = <<>>
  /\ HAS_OPENAI = TRUE
  /\ AI_PROCESS_LIMIT = 1
  /\ MAX_JOBS = 1
  /\ calls = 0
  /\ stored = <<>>
  /\ skips = 0
  /\ posts = 0
  /\ tagsArg = <<>>
  /\ tagsRet = <<>>
  /\ kills = 0
  /\ richArg \in [title : {<<"k">>, <<"k", "x">>}, reply : AiResponses]
  /\ richRet = <<>>
  /\ returned = NoReturns
  /\ Unprobed

NextReply == callRewriteJobRich

SpecReply == InitReply /\ [][NextReply]_vars

\* Descriptions a feed item may carry: words, blanks, line ends, markup,
\* text that spells markup or the start of an attribute, a text of more
\* than ShortWords words and one of more than MaxParagraphs paragraphs.
MaxDesc == 3
MaxCalls == 2

DescSymbols ==
  {"k", " ", "\n", "</p>", "<section>", "&lt;section&gt;", "&lt;/section&gt;",
   "&lt;script&gt;", "&lt;/script&gt;", "&lt;", " onx=", " src=javascript:"}

\* n + 1 words "k" with sep between them
RECURSIVE wordsApart(_, _)
wordsApart(n, sep) ==
  IF n = 0 THEN <<"k">> ELSE <<"k", sep>> \o wordsApart(n - 1, sep)

Descriptions ==
  UNION {[1..n -> DescSymbols] : n \in 0..MaxDesc}
  \cup {wordsApart(ShortWords, " "), wordsApart(MaxParagraphs, "\n")}

\* Variant: the short text of the fallback carries the number of the call.
fallbackResult_numbered(title, company, html) ==
  [short |-> Append(truncateWords(convert(html), ShortWords), ToString(Len(richRet))),
   html |-> sanitizeText(fallbackHTML(convert(html))),
   tags |-> extractTags(title, company, html),
   usedAI |-> FALSE]

\* fallback() with the markup it returns written out; `fallback` above
\* stands for it where only the origin of the markup matters.
fallbackResult(title, company, html) ==
  LET plain == convert(html)
  IN [short |-> truncateWords(plain, ShortWords),
      html |-> sanitizeText(fallbackHTML(plain)),
      tags |-> extractTags(title, company, html),
      usedAI |-> FALSE]

\* A call of rewriteJobRich returns: fallback() at once when the model is
\* not to be used, else what the model path makes of the reply.
rewriteJobRich ==
  /\ Len(richRet) < MaxCalls
  /\ IF callsModel(richArg.useAI)
     THEN /\ aiCalls' = [aiCalls EXCEPT ![1] = @ + 1]
          /\ \E reply \in AiReplies :
               richRet' = Append(richRet,
                                 rewriteJobRichSettled(richArg.title, richArg.company,
                                                       richArg.html, reply))
     ELSE /\ richRet' = Append(richRet, fallbackResult(richArg.title, richArg.company,
                                                       richArg.html))
          /\ UNCHANGED aiCalls
  /\ UNCHANGED <<FEED_RUNNING, db, config, posts, tagsArg, tagsRet, kills, richArg,
                 probe, returned, main, promise, error, hpc, counters, batch, aiEnhanced, fallbackUsed,
                 processedBatch, i, aiThrows, commits, fault, status, fetches, callNo,
                 calls, stored, skips>>

InitFallback ==
  /\ Booted
  /\ db = EmptyDb
  /\ feed = <<>>
  /\ HAS_OPENAI \in BOOLEAN
  /\ AI_PROCESS_LIMIT = 1
  /\ MAX_JOBS = 1
  /\ calls = 0
  /\ stored = <<>>
  /\ skips = 0
  /\ posts = 0
  /\ tagsArg = <<>>
  /\ tagsRet = <<>>
  /\ kills = 0
  /\ richArg \in [title : {<<"k">>, <<"k", "x">>}, company : {<<>>},
                  html : Descriptions, useAI : BOOLEAN]
  /\ richRet = <<>>
  /\ returned = NoReturns
  /\ Unprobed

NextFallback == rewriteJobRich

SpecFallback == InitFallback /\ [][NextFallback]_vars

\* (process.env.PROFESSION_KEYWORDS || '...').toLowerCase().split(',')
\* .map(s => s.trim()).filter(Boolean): the default list when the variable
\* is empty.  Pieces between runs of commas are the non-empty pieces
\* between commas.
keywordsOf(env) ==
  IF env = <<>> THEN PROFESSION_KEYWORDS
  ELSE LET pieces == splitRuns(toLowerCase(env), {","})
           trimmed == [n \in 1..Len(pieces) |-> trim(pieces[n])]
       IN {trimmed[n] : n \in {m \in 1..Len(pieces) : trimmed[m] # <<>>}}

\* Values of PROFESSION_KEYWORDS in the environment: unset, separators
\* only, one keyword, several, in capitals, of two words.
KeywordEnvs ==
  {<<>>, <<",">>, <<" ", ",", " ">>, <<"x">>, <<"K", ",", " ", "x">>,
   <<"a", ",", "k", " ", "x">>, <<"X", " ", "k", ",">>}

ProfessionInputs ==
  [env : KeywordEnvs,
   title : {<<>>, <<"K">>, <<"x">>, <<"k", " ", "X">>, <<"b">>},
   company : {<<>>, <<"x">>, <<"k">>},
   description : {<<>>, <<"K">>, <<"b", "x">>}]

\* A call of matchesProfession returns.
callMatchesProfession ==
  /\ profRet = <<>>
  /\ profRet' = <<matchesAmong(keywordsOf(profArg.env), profArg.title, profArg.company,
                               profArg.description)>>
  /\ UNCHANGED <<FEED_RUNNING, db, config, posts, tagsArg, tagsRet, kills, richArg,
                 richRet, returned, profArg, locArg, locRet, parsing, main, promise,
                 error, hpc, counters, batch, loopvars, status, fetches, callNo, calls,
                 stored, skips>>

InitProfession ==
  /\ Booted
  /\ db = EmptyDb
  /\ feed = <<>>
  /\ HAS_OPENAI = TRUE
  /\ AI_PROCESS_LIMIT = 1
  /\ MAX_JOBS = 1
  /\ calls = 0
  /\ stored = <<>>
  /\ skips = 0
  /\ posts = 0
  /\ tagsArg = <<>>
  /\ tagsRet = <<>>
  /\ kills = 0
  /\ richArg = <<>>
  /\ richRet = <<>>
  /\ returned = NoReturns
  /\ profArg \in ProfessionInputs
  /\ profRet = <<>>
  /\ locArg = <<>>
  /\ locRet = <<>>
  /\ NotParsing

NextProfession == callMatchesProfession

SpecProfession == InitProfession /\ [][NextProfession]_vars

\* ------------------------------------------------------------------ locations
\* A URL is a sequence of symbols: the scheme with its slashes, the labels
\* of the host with "." between them, then ":" and a port or "/" and a path.
\* new URL(siteUrl).hostname.toLowerCase(): <<>> when URL throws
hostname(siteUrl) ==
  IF siteUrl = <<>> \/ Head(siteUrl) # "http://" THEN <<>>
  ELSE LET rest == Tail(siteUrl)
           stop == firstOf(rest, {":", "/"})
       IN toLowerCase(SubSeq(rest, 1, IF stop = 0 THEN Len(rest) ELSE stop - 1))

\* A value of the program that is a string, and one that is not.
String(v) == [type |-> "string", value |-> v]
ObjectFunction == [type |-> "function", value |-> "Object"]

\* map[tld]: the entries of the literal (three of them here), and what any
\* object inherits from Object.prototype; "" stands for undefined.
map(tld) ==
  CASE tld = "de" -> String("DE")
    [] tld = "br" -> String("BR")
    [] tld = "us" -> String("US")
    [] tld = "constructor" -> ObjectFunction
    [] OTHER -> String("")

getCountryFromHost(siteUrl) ==
  LET host == hostname(siteUrl)
      labels == splitRuns(host, {"."})
      tld == IF labels[Len(labels)] = <<>> THEN "" ELSE labels[Len(labels)][1]
  IN IF siteUrl = <<>> \/ Head(siteUrl) # "http://" THEN String("US")
     ELSE IF map(tld) = String("") THEN String("US") ELSE map(tld)

\* the city lexicon, cut to two entries
citiesBR == << <<"s", "p">>, <<"p", "a">> >>

Upper(c) ==
  CASE c = "s" -> "S"
    [] c = "p" -> "P"
    [] OTHER -> c

inferJobLocations(html, title, siteUrl) ==
  LET country == getCountryFromHost(siteUrl)
      text == toLowerCase(convert(html) \o <<" ">> \o title)
      found == SelectSeq(citiesBR, LAMBDA c : includes(text, c))
  IN IF found = <<>>
     THEN <<[type |-> "Place",
             address |-> [type |-> "PostalAddress", addressCountry |-> country]]>>
     ELSE <<[type |-> "Place",
             address |-> [type |-> "PostalAddress",
                          addressLocality |-> <<Upper(found[1][1])>> \o Tail(found[1]),
                          addressCountry |-> country]]>>

\* Values of SITE_URL: not a URL, hosts of one label and of several, in
\* capitals, with a port, with a path, with a top-level label the map has
\* and one it has not.
SiteUrls ==
  {<<>>, <<"a", ".", "br">>, <<"http://", "a", ".", "br">>,
   <<"http://", "A", ".", "BR", "/", "x">>, <<"http://", "localhost", ":", "3004">>,
   <<"http://", "a", ".", "com">>, <<"http://", "a", ".", "de", "/">>,
   <<"http://", "constructor", ":", "3004">>}

LocationInputs ==
  [html : {<<>>, <<"S", "P">>, <<"<", "s", "p", ">", "k">>, <<"x", " ", "p", "a">>},
   title : {<<>>, <<"k">>, <<"p", "a">>},
   siteUrl : SiteUrls]

\* A call of inferJobLocations returns.
callInferJobLocations ==
  /\ locRet = <<>>
  /\ locRet' = <<inferJobLocations(locArg.html, locArg.title, locArg.siteUrl)>>
  /\ UNCHANGED <<FEED_RUNNING, db, config, posts, tagsArg, tagsRet, kills, richArg,
                 richRet, returned, profArg, profRet, locArg, parsing, main, promise,
                 error, hpc, counters, batch, loopvars, status, fetches, callNo, calls,
                 stored, skips>>

InitLocations ==
  /\ Booted
  /\ db = EmptyDb
  /\ feed = <<>>
  /\ HAS_OPENAI = TRUE
  /\ AI_PROCESS_LIMIT = 1
  /\ MAX_JOBS = 1
  /\ calls = 0
  /\ stored = <<>>
  /\ skips = 0
  /\ posts = 0
  /\ tagsArg = <<>>
  /\ tagsRet = <<>>
  /\ kills = 0
  /\ richArg = <<>>
  /\ richRet = <<>>
  /\ returned = NoReturns
  /\ profArg = <<>>
  /\ profRet = <<>>
  /\ locArg \in LocationInputs
  /\ locRet = <<>>
  /\ NotParsing

NextLocations == callInferJobLocations

SpecLocations == InitLocations /\ [][NextLocations]_vars

\* ------------------------------------------------------------------ tags of a text
\* process.env.TARGET_PROFESSION || 'motorista'
targetProfession(env) == IF env = <<>> THEN <<"motorista">> ELSE env

\* TARGET_PROFESSION in the environment: unset, the profession of the
\* deployment, the same padded with a blank, one with a long vocabulary.
ProfessionEnvs == {<<>>, <<"K">>, <<"K", " ">>, TruckDriver}

RECURSIVE spaced(_)
spaced(words) ==
  IF words = <<>> THEN <<>> ELSE <<" ">> \o Head(words) \o spaced(Tail(words))

PatternWords ==
  << <<"home", " ", "office">>, <<"vollzeit">>, <<"part-time">>, <<"permanent">>,
     <<"zeitarbeit">> >>

\* Texts that name the first n tags of the long vocabulary and the words of
\* the first m patterns.
TagTexts ==
  {<<"x">> \o spaced(SubSeq(TruckDriverTags, 1, n)) \o spaced(SubSeq(PatternWords, 1, m)) :
     n \in 0..Len(TruckDriverTags), m \in 0..Len(PatternWords)}

ExtractInputs == [env : ProfessionEnvs, title : TagTexts, company : {<<>>}, html : {<<>>}]

\* A call of extractTags returns.
callExtractTags ==
  /\ tagsRet = <<>>
  /\ tagsRet' = <<extractTagsFor(targetProfession(tagsArg.env), tagsArg.title,
                                 tagsArg.company, tagsArg.html)>>
  /\ UNCHANGED <<FEED_RUNNING, db, config, posts, tagsArg, kills, richArg, richRet,
                 probe, returned, main, promise, error, hpc, counters, batch, loopvars,
                 status, fetches, callNo, calls, stored, skips>>

InitExtract ==
  /\ Booted
  /\ db = EmptyDb
  /\ feed = <<>>
  /\ HAS_OPENAI = TRUE
  /\ AI_PROCESS_LIMIT = 1
  /\ MAX_JOBS = 1
  /\ calls = 0
  /\ stored = <<>>
  /\ skips = 0
  /\ posts = 0
  /\ tagsArg \in ExtractInputs
  /\ tagsRet = <<>>
  /\ kills = 0
  /\ richArg = <<>>
  /\ richRet = <<>>
  /\ returned = NoReturns
  /\ Unprobed

NextExtract == callExtractTags

SpecExtract == InitExtract /\ [][NextExtract]_vars

\* ------------------------------------------------------------------ parser handlers
\* The events sax.createStream(true, { trim: true, normalize: true }) emits
\* for a well-formed document: names as written, texts trimmed and not
\* empty.  The handlers below run for the call in slot 1.
Open(n) == [type |-> "opentag", name |-> n, text |-> <<>>]
Close(n) == [type |-> "closetag", name |-> n, text |-> <<>>]
Text(t) == [type |-> "text", name |-> "", text |-> t]
Cdata(t) == [type |-> "cdata", name |-> "", text |-> t]

ItemTags == {"job", "item"}

\* new Date().toISOString() at the opening tag, and its time in milliseconds
Now == <<"n", "o", "w">>
NowMs == 1000

\* { title: '', description: '', company: '', link: '', guid: '', pubDate: ... }
FreshItem ==
  [title |-> <<>>, description |-> <<>>, company |-> <<>>, link |-> <<>>,
   guid |-> <<>>, pubDate |-> Now]

\* The element that opens: nothing inside it yet.  (guids and links: the
\* values of the guid, referencenumber, url and link elements closed inside
\* an item element.)
Element(n) == [name |-> n, own |-> <<>>, guids |-> <<>>, links |-> <<>>]

\* the innermost open job or item element, 0 if there is none
enclosingItem(stack) ==
  IF \E n \in 1..Len(stack) : stack[n].name \in ItemTags
  THEN CHOOSE n \in 1..Len(stack) :
         /\ stack[n].name \in ItemTags
         /\ \A m \in (n + 1)..Len(stack) : stack[m].name \notin ItemTags
  ELSE 0

\* parser.on('opentag')
onOpentag ==
  /\ handled < Len(events)
  /\ events[handled + 1].type = "opentag"
  /\ LET tag == Lower(events[handled + 1].name)
     IN /\ currentTag' = tag
        /\ currentText' = <<>>
        /\ currentItem' = IF tag \in ItemTags THEN FreshItem ELSE currentItem
        /\ opened' = Append(opened, Element(tag))
  /\ handled' = handled + 1
  /\ UNCHANGED <<FEED_RUNNING, db, config, posts, tagsArg, tagsRet, kills, richArg,
                 richRet, returned, profArg, profRet, locArg, locRet, events, assigned,
                 closedItems, main, promise, error, hpc, counters, batch, loopvars,
                 status, fetches, callNo, calls, stored, skips>>

\* currentText += text, and the text counted to the element it stands in
append(text) ==
  /\ currentText' = currentText \o text
  /\ opened' = [opened EXCEPT ![Len(opened)].own = @ \o text]
  /\ handled' = handled + 1
  /\ UNCHANGED <<FEED_RUNNING, db, config, posts, tagsArg, tagsRet, kills, richArg,
                 richRet, returned, profArg, profRet, locArg, locRet, events,
                 currentItem, currentTag, assigned, closedItems, main, promise, error,
                 hpc, counters, batch, loopvars, status, fetches, callNo, calls, stored,
                 skips>>

\* parser.on('text')
onText ==
  /\ handled < Len(events)
  /\ events[handled + 1].type = "text"
  /\ append(events[handled + 1].text)

\* parser.on('cdata')
onCdata ==
  /\ handled < Len(events)
  /\ events[handled + 1].type = "cdata"
  /\ append(events[handled + 1].text)

\* Variant: a later guid or referencenumber replaces an earlier one.
assign_lastGuidWins(item, tagName, value) ==
  CASE tagName = "title" -> [item EXCEPT !.title = value]
    [] tagName = "description" -> [item EXCEPT !.description = value]
    [] tagName = "company" -> [item EXCEPT !.company = value]
    [] tagName \in {"url", "link"} -> [item EXCEPT !.link = value]
    [] tagName \in {"guid", "referencenumber"} -> [item EXCEPT !.guid = value]
    [] tagName \in {"pubdate", "date_updated"} -> [item EXCEPT !.pubDate = value]
    [] OTHER -> item

\* the switch of the closetag handler
assign(item, tagName, value) ==
  CASE tagName = "title" -> [item EXCEPT !.title = value]
    [] tagName = "description" -> [item EXCEPT !.description = value]
    [] tagName = "company" -> [item EXCEPT !.company = value]
    [] tagName \in {"url", "link"} -> [item EXCEPT !.link = value]
    [] tagName \in {"guid", "referencenumber"} ->
         IF item.guid = <<>> THEN [item EXCEPT !.guid = value] ELSE item
    [] tagName \in {"pubdate", "date_updated"} -> [item EXCEPT !.pubDate = value]
    [] OTHER -> item

FieldTags == {"title", "description", "company", "url", "link", "guid",
              "referencenumber", "pubdate", "date_updated"}

\* the switch assigns a value at this close tag
assigns(item, tagName) ==
  /\ tagName \in FieldTags
  /\ tagName \in {"guid", "referencenumber"} => item.guid = <<>>

\* Number.NaN; no time of the model is negative
NaN == -1

\* a date as a feed writes it, and its time in milliseconds
Dated == <<"2024-05-01T10:00:02Z">>
DatedMs == 2000

\* new Date(d).getTime(): NaN for a text that is no date, the empty one too
getTime(d) ==
  IF d = Now THEN NowMs
  ELSE IF d = Dated THEN DatedMs
  ELSE NaN

\* unixtime(currentItem.pubDate): Math.floor(NaN / 1000) is NaN
publishedAt(pubDate) ==
  IF getTime(pubDate) = NaN THEN NaN ELSE unixtime(getTime(pubDate))

\* what the closing element adds to the elements around it
closeElement(stack, tagName) ==
  LET top == stack[Len(stack)]
      rest == SubSeq(stack, 1, Len(stack) - 1)
      n == enclosingItem(rest)
  IN IF n = 0 THEN rest
     ELSE IF tagName \in {"guid", "referencenumber"}
          THEN [rest EXCEPT ![n].guids = Append(@, trim(top.own))]
     ELSE IF tagName \in {"url", "link"}
          THEN [rest EXCEPT ![n].links = Append(@, trim(top.own))]
     ELSE rest

\* parser.on('closetag')
onClosetag ==
  /\ handled < Len(events)
  /\ events[handled + 1].type = "closetag"
  /\ handled' = handled + 1
  /\ LET tagName == Lower(events[handled + 1].name)
         top == opened[Len(opened)]
         item == IF currentItem = <<>> THEN <<>>
                 ELSE assign(currentItem, tagName, trim(currentText))
         n == processed[1] + 1
         guid == resolveGuid(item, n)
         did == classify(db, item, guid)
     IN /\ opened' = closeElement(opened, tagName)
        /\ closedItems' = IF tagName \in ItemTags THEN closedItems + 1 ELSE closedItems
        /\ assigned' = IF currentItem # <<>> /\ assigns(currentItem, tagName)
                       THEN <<[field |-> tagName, value |-> trim(currentText),
                               own |-> trim(top.own)]>>
                       ELSE assigned
        /\ IF currentItem = <<>>
           THEN UNCHANGED <<currentItem, counters, batch>>
           ELSE IF tagName \notin ItemTags
           THEN /\ currentItem' = item
                /\ UNCHANGED <<counters, batch>>
           ELSE /\ currentItem' = <<>>
                /\ processed' = [processed EXCEPT ![1] = n]
                /\ trace' = [trace EXCEPT ![1] =
                               Append(@, [guid |-> guid, had |-> stmtHasGuid(db, guid) # {},
                                          did |-> did, guids |-> top.guids,
                                          links |-> top.links])]
                /\ IF did = "matched"
                   THEN /\ matched' = [matched EXCEPT ![1] = @ + 1]
                        /\ batch' = [batch EXCEPT ![1] =
                                       Append(@, [rawTitle |-> item.title,
                                                  rawCompany |-> item.company,
                                                  rawDescription |-> item.description,
                                                  guid |-> guid,
                                                  url |-> item.link,
                                                  published_at |-> publishedAt(item.pubDate)])]
                        /\ UNCHANGED skipped
                   ELSE /\ skipped' = [skipped EXCEPT ![1] = @ + 1]
                        /\ UNCHANGED <<matched, batch>>
  /\ UNCHANGED <<FEED_RUNNING, db, config, posts, tagsArg, tagsRet, kills, richArg,
                 richRet, returned, profArg, profRet, locArg, locRet, events,
                 currentTag, currentText, main, promise, error, hpc, loopvars,
                 status, fetches, callNo, calls, stored, skips>>

\* Elements of an item: fields in lower case and in capitals, empty, with
\* CDATA, with markup inside, an element the handlers do not know, dates
\* that are empty, no date, and a date.
FieldElements ==
  {<<Open("title"), Text(<<"k">>), Close("title")>>,
   <<Open("TITLE"), Text(<<"x">>), Close("TITLE")>>,
   <<Open("guid"), Text(<<"a">>), Close("guid")>>,
   <<Open("guid"), Close("guid")>>,
   <<Open("referencenumber"), Text(<<"b">>), Close("referencenumber")>>,
   <<Open("link"), Text(<<"u">>), Close("link")>>,
   <<Open("description"), Cdata(<<"k">>), Close("description")>>,
   <<Open("pubDate"), Close("pubDate")>>,
   <<Open("pubDate"), Text(<<"x">>), Close("pubDate")>>,
   <<Open("date_updated"), Text(Dated), Close("date_updated")>>,
   <<Open("description"), Text(<<"x">>), Open("b"), Text(<<"k">>), Close("b"),
     Text(<<"o">>), Close("description")>>}

MaxFields == 2

RECURSIVE flatten(_)
flatten(parts) ==
  IF parts = <<>> THEN <<>> ELSE Head(parts) \o flatten(Tail(parts))

FieldRuns == {flatten(fs) : fs \in UNION {[1..n -> FieldElements] : n \in 0..MaxFields}}

\* An item element; one with an item element inside it; one inside a job.
ItemElements ==
  {<<Open("item")>> \o fs \o <<Close("item")>> : fs \in FieldRuns}
  \cup {<<Open("item"), Open("item")>> \o f \o <<Close("item")>> \o g \o <<Close("item")>> :
          f, g \in FieldElements \cup {<<>>}}
  \cup {<<Open("job"), Open("item")>> \o f \o <<Close("item"), Close("job")>> :
          f \in FieldElements}

\* Items that follow the first one in a document.
LaterItems ==
  {<<>>,
   <<Open("item"), Open("title"), Text(<<"k">>), Close("title"), Close("item")>>,
   <<Open("item"), Open("title"), Text(<<"k">>), Close("title"), Open("link"),
     Text(<<"u">>), Close("link"), Close("item")>>}

\* Documents: a root element, one item element and perhaps a plain one.
Documents ==
  {<<Open("rss")>> \o first \o later \o <<Close("rss")>> :
     first \in ItemElements, later \in LaterItems}

\* storage as an earlier run may have left it
JobA ==
  [id |-> 1, guid |-> <<"a">>, title |-> <<"k">>, description_html |-> "fallback",
   published_at |-> 1, slug |-> <<"k">>, tags_csv |-> <<"k">>]

InitParser ==
  /\ Booted
  /\ db \in {EmptyDb, [EmptyDb EXCEPT !.jobs = {JobA}, !.jobSeq = 1]}
  /\ feed = <<>>
  /\ HAS_OPENAI = TRUE
  /\ AI_PROCESS_LIMIT = 1
  /\ MAX_JOBS = 1
  /\ calls = 0
  /\ stored = <<>>
  /\ skips = 0
  /\ posts = 0
  /\ tagsArg = <<>>
  /\ tagsRet = <<>>
  /\ kills = 0
  /\ richArg = <<>>
  /\ richRet = <<>>
  /\ returned = NoReturns
  /\ profArg = <<>>
  /\ profRet = <<>>
  /\ locArg = <<>>
  /\ locRet = <<>>
  /\ events \in Documents
  /\ handled = 0
  /\ currentItem = <<>>
  /\ currentTag = ""
  /\ currentText = <<>>
  /\ opened = <<>>
  /\ assigned = <<>>
  /\ closedItems = 0

NextParser == onOpentag \/ onText \/ onCdata \/ onClosetag

SpecParser == InitParser /\ [][NextParser]_vars

\* ------------------------------------------------------------------ claims
\* The call in slot r is between FEED_RUNNING = true and FEED_RUNNING = false.
Holding(r) == main[r] \in {"fetch", "await"}

\* The call in slot r is fetching, parsing, enriching or writing.
Working(r) == Holding(r) \/ hpc[r] \in {"aiwait", "fbwait"}

\* C1: at most one call of processFeed at a time is between setting and
\* resetting FEED_RUNNING, and no two runs fetch, parse, enrich or write
\* concurrently.
C1_OneRunAtATime ==
  /\ Cardinality({r \in Runs : Holding(r)}) <= 1
  /\ Cardinality({r \in Runs : Working(r)}) <= 1

\* C2: a call of processFeed that finds a run active returns at once: it
\* leaves FEED_RUNNING true, starts no fetch and no call, and touches neither
\* storage nor the active run.
C2_SkipTouchesNothing ==
  [][skips' # skips =>
       /\ FEED_RUNNING /\ FEED_RUNNING'
       /\ UNCHANGED <<db, fetches, calls, main, promise, error, hpc, trace, batch>>]_vars

C2_Witness ==
  /\ skips > 0
  /\ FEED_RUNNING
  /\ \E r \in Runs : main[r] = "await" /\ processed[r] > 0

\* The parser and the 'end' handler of the call in slot r have come to rest.
Rested(r) == hpc[r] \in {"threw", "unpiped", "finished"}

\* C3: every run that has set FEED_RUNNING to true resets it on every
\* outcome: a run is never left holding the guard with its parser and 'end'
\* handler at rest and the promise it awaits still pending (nothing is left
\* to settle that promise, so the finally block would never run).
C3_GuardReleased ==
  \A r \in Runs : (Holding(r) /\ Rested(r)) => promise[r] # "pending"

\* C4: two complete runs in sequence over the same feed leave the same job
\* rows after the second as after the first.
C4_Idempotent ==
  \A n \in 1..(Len(stored) - 1) :
    stored[n + 1].call = stored[n].call + 1 => stored[n + 1].jobs = stored[n].jobs

Matched(tr) == SelectSeq(tr, LAMBDA e : e.did = "matched")

\* C5: an item whose guid is in storage when its element closes is counted
\* as skipped, reaches neither matchesProfession nor the batch handed to
\* rewriteJobRich, and its closing leaves storage as it is.
C5_DupSkipped ==
  /\ [](\A r \in Runs :
          /\ \A n \in 1..Len(trace[r]) : trace[r][n].had => trace[r][n].did = "dup"
          /\ [n \in 1..Len(batch[r]) |-> batch[r][n].guid]
               = [n \in 1..Len(Matched(trace[r])) |-> Matched(trace[r])[n].guid]
          /\ skipped[r] = Len(trace[r]) - Len(batch[r])
          /\ aiCalls[r] <= Len(batch[r]))
  /\ [][\A r \in Runs : Len(trace'[r]) > Len(trace[r]) => db' = db]_vars

C5_Witness ==
  \E r \in Runs : \E n \in 1..Len(trace[r]) :
    /\ trace[r][n].had
    /\ skipped[r] > 0
    /\ \E j \in db.jobs : j.guid = trace[r][n].guid

\* C6: a batch write that throws partway leaves storage exactly as it was
\* before the batch: no row of the batch is stored and the rows of the
\* batches committed before it stay.
C6_FailedBatchRolledBack ==
  [][\A r \in Runs : (fault'[r] # fault[r] /\ fault'[r] # -1) => db' = db]_vars

C6_Witness ==
  \E r \in Runs :
    /\ hpc[r] = "threw"
    /\ fault[r] >= 1
    /\ commits[r] >= 1
    /\ db.jobs # {}
    /\ \E n \in 1..Len(processedBatch[r]) :
         \A j \in db.jobs : /\ j.guid # processedBatch[r][n].guid
                            /\ j.slug # processedBatch[r][n].slug

\* C7: when a batch write throws, the promise awaited by processFeed is
\* rejected with that error, so that processFeed rejects.
C7_WriteErrorRejects ==
  \A r \in Runs :
    fault[r] # -1 => promise[r] = "rejected" /\ error[r] = "PersistenceError"

\* C8: when the parser has reported an error and the parser and handler of
\* the run have come to rest, every item matched before the error has been
\* enriched and handed to a committed batch write.
C8_ParsedItemsProcessed ==
  \A r \in Runs :
    (error[r] = "ParseError" /\ hpc[r] \in {"unpiped", "finished"}) =>
      /\ aiEnhanced[r] + fallbackUsed[r] = matched[r]
      /\ matched[r] > 0 => commits[r] > 0

\* C9: a run fetches once, and when the response has an HTTP error status
\* no item is parsed, nothing is written and the run does not return normally.
C9_FetchFailureAborts ==
  \A r \in Runs :
    /\ fetches[r] <= 1
    /\ status[r] = "http_error" =>
         processed[r] = 0 /\ commits[r] = 0 /\ main[r] # "returned"

ThrowStep(r) == aiThrows'[r] = aiThrows[r] + 1

\* C10: when the model call of an item throws, the item gets the fallback
\* content with usedAI = false, counts in fallbackUsed, goes to the batch
\* writer, and the loop goes on with the next item; the failure rejects
\* nothing.
C10_AiFailureFallsBack ==
  [][\A r \in Runs : ThrowStep(r) =>
       LET rawJob == batch[r][i[r]]
           wrote == commits'[r] = commits[r] + 1
           threw == fault'[r] # -1
           fresh == \A j \in db.jobs : j.guid # rawJob.guid /\ j.slug # jobSlug(rawJob)
       IN /\ fallbackUsed'[r] = fallbackUsed[r] + 1
          /\ aiEnhanced'[r] = aiEnhanced[r]
          /\ error'[r] = error[r]
          /\ promise'[r] # promise[r] => promise'[r] = "resolved"
          /\ wrote \/ threw \/
               (/\ processedBatch'[r] # <<>>
                /\ processedBatch'[r][Len(processedBatch'[r])].guid = rawJob.guid)
          /\ (wrote /\ fresh) =>
               \E j \in db'.jobs : /\ j.guid = rawJob.guid
                                   /\ j.description_html = "fallback"
          /\ (~threw /\ i[r] < Len(batch[r])) =>
               i'[r] = i[r] + 1 /\ hpc'[r] \in {"aiwait", "fbwait"}
          /\ (~threw /\ i[r] = Len(batch[r])) => hpc'[r] = "finished"]_vars

C10_Witness ==
  \E r \in Runs :
    /\ aiThrows[r] > 0
    /\ fallbackUsed[r] > 0
    /\ hpc[r] = "aiwait"
    /\ i[r] = 2
    /\ \E j \in db.jobs : j.guid = batch[r][1].guid /\ j.description_html = "fallback"

\* C11: with AI_PROCESS_LIMIT = L > 0 the count aiEnhanced of a run never
\* exceeds L; with L = 0 every matched item is requested with useAI = true:
\* each iteration of the loop issues a model call when a key is configured.
C11_AiLimit ==
  \A r \in Runs :
    /\ AI_PROCESS_LIMIT > 0 => aiEnhanced[r] <= AI_PROCESS_LIMIT
    /\ (AI_PROCESS_LIMIT = 0 /\ HAS_OPENAI) =>
         /\ hpc[r] # "fbwait"
         /\ hpc[r] = "aiwait" => aiCalls[r] = i[r]
         /\ hpc[r] = "finished" => aiCalls[r] = Len(batch[r])

C11_Witness ==
  \E r \in Runs :
    /\ AI_PROCESS_LIMIT = 1
    /\ aiEnhanced[r] = 1
    /\ fallbackUsed[r] = 1
    /\ aiThrows[r] = 0
    /\ hpc[r] = "finished"

\* The 'end' handler of the call in slot r has written its last batch and
\* processFeed has not yet gone on to the trim.
Written(r) == hpc[r] = "finished" /\ main[r] = "await" /\ promise[r] = "resolved"

Stored(guid) == \E j \in db.jobs : j.guid = guid

\* C12: two matched items of a feed with the same title and company and
\* different guids get different slugs, and both are stored as job rows.
C12_DistinctSlugs ==
  \A r \in Runs : \A m, n \in 1..Len(batch[r]) :
    (/\ batch[r][m].guid # batch[r][n].guid
     /\ batch[r][m].rawTitle = batch[r][n].rawTitle
     /\ batch[r][m].rawCompany = batch[r][n].rawCompany) =>
      /\ jobSlug(batch[r][m]) # jobSlug(batch[r][n])
      /\ Written(r) => Stored(batch[r][m].guid) /\ Stored(batch[r][n].guid)

\* C13: the trim step of a completed run leaves min(count before, MAX_JOBS)
\* job rows, and every row it keeps ranks above every row it removes by
\* (published_at, id) descending.
C13_Retention ==
  [][\A r \in Runs : (main[r] = "await" /\ main'[r] = "returned") =>
       LET before == db.jobs
           after == db'.jobs
       IN /\ after \subseteq before
          /\ Cardinality(after) = IF Cardinality(before) < MAX_JOBS
                                  THEN Cardinality(before) ELSE MAX_JOBS
          /\ \A s \in after, e \in before \ after :
               \/ s.published_at > e.published_at
               \/ s.published_at = e.published_at /\ s.id > e.id]_vars

C13_Witness ==
  /\ MAX_JOBS = 1
  /\ calls = 1
  /\ Len(stored) = 1
  /\ db.jobSeq = 2
  /\ \E j \in stored[1].jobs : j.id = 1 /\ j.published_at = 2
  /\ Cardinality(stored[1].jobs) = 1

\* C14: every row of job_tags refers to a job id that is present in jobs.
C14_NoDanglingJobTags ==
  \A p \in db.job_tags : \E j \in db.jobs : j.id = p[1]

\* C15: a batch write adds job-tag pairs only for job rows that it has
\* newly inserted (ids above the counter before the write); a candidate
\* whose insert was ignored adds no pair to any job.
C15_TagsOnlyForNewRows ==
  [][\A p \in db'.job_tags \ db.job_tags : p[1] > db.jobSeq]_vars

\* C16: tags.name and tags.slug stay unique, and every tag of a stored job
\* is associated with it through the tags row of that name or, when the
\* name is new and its slug is taken, the existing row of that slug.
C16_EquivalentTagReused ==
  /\ \A t, u \in db.tags : (t.name = u.name \/ t.slug = u.slug) => t = u
  /\ \A j \in db.jobs :
       LET names == splitTags(j.tags_csv)
       IN \A n \in 1..Len(names) :
            \E t \in db.tags : /\ t.name = names[n] \/ t.slug = tagSlug(names[n])
                               /\ <<j.id, t.id>> \in db.job_tags

\* C17: over pipeline runs, manual submissions and changes of the feed, no
\* column of a stored job row changes while the row is stored, and a row
\* goes away only in the trim step of a run that returns.
C17_RowsImmutable ==
  [][/\ \A j \in db.jobs, k \in db'.jobs : k.id = j.id => k = j
     /\ (\E j \in db.jobs : \A k \in db'.jobs : k.id # j.id) =>
          \E r \in Runs : main[r] = "await" /\ main'[r] = "returned"]_vars

C17_Witness ==
  /\ feed[1].title = <<"k", "x">>
  /\ \E j \in db.jobs : j.guid = <<"a">> /\ j.title = <<"k">>
  /\ \E r \in Runs : /\ main[r] = "returned"
                     /\ callNo[r] = 2
                     /\ Len(trace[r]) = 1
                     /\ trace[r][1].had

\* The matching item at position n of the feed is stored, in one row.
StoredOnce(n) ==
  matchesProfession(feed[n].title, feed[n].company, feed[n].description) =>
    Cardinality({j \in db.jobs : j.guid = resolveGuid(feed[n], n)}) = 1

\* C18: when the process was killed during a run and a later run over the
\* same feed has written its last batch, every matching item of the feed is
\* stored exactly once.
C18_RestartStoresAll ==
  \A r \in Runs : (kills > 0 /\ Written(r)) => \A n \in 1..Len(feed) : StoredOnce(n)

\* At most eight entries, no two equal ignoring case, none empty.
TagListOk(ts) ==
  /\ Len(ts) <= 8
  /\ \A m, n \in 1..Len(ts) : toLowerCase(ts[m]) = toLowerCase(ts[n]) => m = n
  /\ \A n \in 1..Len(ts) : ts[n] # <<>>

\* C19: the list returned by uniqNormTags, and with it the tags of
\* extractTags and of rewriteJobRich on the model path and on the fallback
\* path, has at most 8 entries, no two equal ignoring case, and no empty one.
C19_TagBound ==
  /\ TagListOk(tagsRet)
  /\ \A title \in Titles, reply \in AiReplies :
       /\ TagListOk(extractTags(title, <<>>, <<>>))
       /\ TagListOk(rewriteJobRichSettled(title, <<>>, <<>>, reply).tags)

C19_Witness ==
  /\ tagsArg = TagLine
  /\ Len(tagsRet) = 8

\* One of the three sections is missing, or the tag payload is no JSON array.
Malformed(reply) == reply.desc = 0 \/ reply.html = <<>> \/ ~reply.parsed

\* C20: for a response that came back without an exception and is
\* malformed, rewriteJobRich returns non-empty html and usedAI = true, and
\* the tags of extractTags when the tag payload did not parse.
C20_MalformedReplyRecovered ==
  (richRet # <<>> /\ Malformed(richArg.reply)) =>
    /\ richRet[1].usedAI
    /\ richRet[1].html # ""
    /\ ~richArg.reply.parsed =>
         richRet[1].tags = extractTags(richArg.title, <<>>, <<>>)

NoModel == ~callsModel(richArg.useAI)

IsSectionTag(c) == c \in {"<section>", "</section>"}

\* the text that follows each <h2> of the markup
headingsOf(html) ==
  LET at == SelectSeq([n \in 1..Len(html) |-> n],
                      LAMBDA n : html[n] = "<h2>" /\ n < Len(html))
  IN [k \in 1..Len(at) |-> html[at[k] + 1]]

SevenBlocks ==
  [n \in 1..(2 * Len(Headings)) |-> IF n % 2 = 1 THEN "<section>" ELSE "</section>"]

\* C22: when the model is disabled, unavailable or not requested,
\* rewriteJobRich issues no model call and returns usedAI = false with
\* markup of exactly seven section blocks under the seven headings in
\* their order, whatever the description.
C22_FallbackSevenSections ==
  NoModel =>
    /\ aiCalls[1] = 0
    /\ \A n \in 1..Len(richRet) :
         /\ ~richRet[n].usedAI
         /\ SelectSeq(richRet[n].html, IsSectionTag) = SevenBlocks
         /\ headingsOf(richRet[n].html) = Headings

C22_Witness ==
  /\ NoModel
  /\ richArg.useAI
  /\ richRet # <<>>
  /\ richArg.html = <<"&lt;section&gt;", " onx=", "k">>

\* C23: the value a call of processFeed returns tells a completed run from
\* a call skipped because a run was active, and the value of a completed
\* run is not undefined: it carries the counters of the run.
C23_ReturnTellsOutcome ==
  /\ \A a \in returned.skipped, b \in returned.completed : a # b
  /\ "undefined" \notin returned.completed

\* kw stands in text at offset n
OccursAt(text, kw, n) ==
  /\ n + Len(kw) <= Len(text)
  /\ \A m \in 1..Len(kw) : text[n + m] = kw[m]

\* the three fields in lower case, one after the other with a blank between
FieldsText(arg) ==
  [n \in 1..(Len(arg.title) + Len(arg.company) + Len(arg.description) + 2) |->
     LET c == IF n <= Len(arg.title) THEN arg.title[n]
              ELSE IF n = Len(arg.title) + 1 THEN " "
              ELSE IF n <= Len(arg.title) + 1 + Len(arg.company)
                   THEN arg.company[n - Len(arg.title) - 1]
              ELSE IF n = Len(arg.title) + Len(arg.company) + 2 THEN " "
              ELSE arg.description[n - Len(arg.title) - Len(arg.company) - 2]
     IN Lower(c)]

\* C24: matchesProfession returns true exactly when some configured keyword
\* occurs in the lower-cased text of title, company and description; with no
\* keyword configured it returns false.
C24_MatchesIffKeywordOccurs ==
  profRet # <<>> =>
    LET keywords == keywordsOf(profArg.env)
        text == FieldsText(profArg)
    IN /\ profRet[1] = (\E kw \in keywords : \E n \in 0..Len(text) : OccursAt(text, kw, n))
       /\ keywords = {} => profRet[1] = FALSE

C24_Witness ==
  /\ profRet = <<TRUE>>
  /\ profArg.env = <<"K", ",", " ", "x">>
  /\ profArg.title = <<"b">>
  /\ profArg.company = <<>>
  /\ profArg.description = <<"K">>

\* the positions of the items of the feed that match the profession
Matching ==
  {n \in 1..Len(feed) :
     matchesProfession(feed[n].title, feed[n].company, feed[n].description)}

\* The matching items have pairwise different guids and slugs.
MatchesDistinct ==
  \A m, n \in Matching :
    m # n => /\ resolveGuid(feed[m], m) # resolveGuid(feed[n], n)
             /\ mkSlug(feed[m].title \o <<"-">> \o feed[m].company)
                  # mkSlug(feed[n].title \o <<"-">> \o feed[n].company)

\* The first call of processFeed, made on empty storage, has just returned
\* from a completed run; its counters are still in slot r.
FirstRunDone(r) ==
  /\ main[r] = "returned"
  /\ hpc[r] = "finished"
  /\ callNo[r] = 1
  /\ \E n \in 1..Len(stored) : stored[n].call = 1

\* the jobs table as the first call left it
AfterFirstRun == stored[CHOOSE n \in 1..Len(stored) : stored[n].call = 1].jobs

\* k jobs are stored, matched is k, the others are skipped and not stored
StoresTheMatches(r) ==
  /\ Cardinality(AfterFirstRun) = Cardinality(Matching)
  /\ matched[r] = Cardinality(Matching)
  /\ skipped[r] = Len(feed) - Cardinality(Matching)
  /\ {j.guid : j \in AfterFirstRun} = {resolveGuid(feed[n], n) : n \in Matching}
  /\ \A j \in AfterFirstRun : matchesProfession(j.title, <<>>, <<>>)

\* C25 as stated: after a completed run on empty storage over a feed whose
\* k matching items have pairwise different guids and slugs, exactly k jobs
\* are stored, matched is k, and every other item is skipped and not stored.
C25_StoresEveryMatch ==
  \A r \in Runs : (FirstRunDone(r) /\ MatchesDistinct) => StoresTheMatches(r)

\* C25, amended: the same, for feeds of at most MAX_JOBS matching items.
C25_StoresEveryMatchUpToMaxJobs ==
  \A r \in Runs :
    (FirstRunDone(r) /\ MatchesDistinct /\ Cardinality(Matching) <= MAX_JOBS)
      => StoresTheMatches(r)

C25_Witness ==
  \E r \in Runs :
    /\ FirstRunDone(r)
    /\ Len(feed) = 2
    /\ Cardinality(Matching) = 1
    /\ skipped[r] = 1
    /\ Cardinality(AfterFirstRun) = 1

\* C26: inferJobLocations returns a list of at least one place whose
\* country is a non-empty string, whatever html, title and site URL.
C26_PlaceWithCountry ==
  locRet # <<>> =>
    \E n \in 1..Len(locRet[1]) :
      /\ locRet[1][n].address.addressCountry.type = "string"
      /\ locRet[1][n].address.addressCountry.value # ""

\* C27: at every moment of a run the matched items it holds in memory for
\* enrichment are no more than the one item in flight, however many items
\* of the feed match.
C27_HoldsOneItem ==
  \A r \in Runs : Len(batch[r]) <= 1

\* C28: the value a field gets when its element closes is the text and CDATA
\* directly inside that element, trimmed: text of a child element is no part
\* of it, and text before a child element is part of it.
C28_FieldIsOwnText ==
  assigned # <<>> => assigned[1].value = assigned[1].own

\* C29: an item is being assembled exactly while a job or item element is
\* open, and every job or item element that has closed has emitted one
\* record.
C29_InItemWhileItemOpen ==
  /\ currentItem # <<>> <=> enclosingItem(opened) # 0
  /\ processed[1] = closedItems

\* the first text of a sequence that is not empty, <<>> if there is none
firstNonEmpty(values) ==
  IF \E n \in 1..Len(values) : values[n] # <<>>
  THEN values[CHOOSE n \in 1..Len(values) :
                /\ values[n] # <<>>
                /\ \A m \in 1..(n - 1) : values[m] = <<>>]
  ELSE <<>>

\* the guid the n-th emitted record is to have
guidOf(e, n) ==
  IF firstNonEmpty(e.guids) # <<>> THEN firstNonEmpty(e.guids)
  ELSE IF e.links # <<>> /\ e.links[Len(e.links)] # <<>> THEN e.links[Len(e.links)]
  ELSE <<"j", "o", "b", "-">> \o Digits(n)

C31_CallsWithinLimit ==
  \A r \in Runs : AI_PROCESS_LIMIT > 0 => aiCalls[r] <= AI_PROCESS_LIMIT

IsMatched(t) == t.did = "matched"

\* items of the batch that rewriteJobRich has returned for
Enriched(r) == aiEnhanced[r] + fallbackUsed[r]

\* model calls issued and not yet settled
Outstanding(r) == aiCalls[r] - aiEnhanced[r] - aiThrows[r]

\* the first place of a guid in the batch
PlaceOf(r, guid) ==
  CHOOSE n \in 1..Len(batch[r]) :
    /\ batch[r][n].guid = guid
    /\ \A m \in 1..(n - 1) : batch[r][m].guid # guid

\* The batch holds the matched items in the order their elements closed;
\* the item being enriched is the one after those already returned; the
\* rows waiting for the writer are the last ones enriched, in that order;
\* at most one model call is outstanding, and only while the loop waits.
InFeedOrder(r) ==
  /\ LET m == SelectSeq(trace[r], IsMatched)
     IN /\ Len(batch[r]) = Len(m)
        /\ \A n \in 1..Len(m) : batch[r][n].guid = m[n].guid
  /\ hpc[r] \in {"aiwait", "fbwait"} => i[r] = Enriched(r) + 1
  /\ Enriched(r) <= Len(batch[r])
  /\ Len(processedBatch[r]) <= Enriched(r)
  /\ \A n \in 1..Len(processedBatch[r]) :
       processedBatch[r][n].guid =
         batch[r][Enriched(r) - Len(processedBatch[r]) + n].guid
  /\ Outstanding(r) \in {0, 1}
  /\ Outstanding(r) = 1 <=> hpc[r] = "aiwait"

\* A batch write of the run commits: the rows it adds are rows of the items
\* enriched since the last write, numbered in the order of the batch.
HandedInOrder(r) ==
  commits'[r] = commits[r] + 1 =>
    LET new == db'.jobs \ db.jobs
        from == i[r] - Len(processedBatch[r])
    IN /\ \A j \in new :
            \E n \in from..i[r] : batch[r][n].guid = j.guid
       /\ \A j, k \in new :
            j.id < k.id => PlaceOf(r, j.guid) < PlaceOf(r, k.guid)
       /\ \A j \in new, k \in db.jobs : k.id < j.id

\* C32: within a run the matched items are enriched and handed to
\* insertBatch in the order in which their elements closed, each enrichment
\* starts after the one before has returned, and at most one model call of
\* the run is outstanding.
C32_EnrichedInFeedOrder ==
  /\ [](\A r \in Runs : InFeedOrder(r))
  /\ [][\A r \in Runs : HandedInOrder(r)]_vars

\* Two matched items, the model call of the first failed, the second call
\* is outstanding and the row of the first item is stored.
C32_Witness ==
  \E r \in Runs :
    /\ Len(batch[r]) = 2
    /\ i[r] = 2
    /\ hpc[r] = "aiwait"
    /\ aiCalls[r] = 2
    /\ commits[r] = 1
    /\ \E j \in db.jobs : j.guid = batch[r][1].guid

\* processFeed passes its trim step and returns
TrimStep(r) == main[r] = "await" /\ main'[r] = "returned"

\* processFeed leaves through its catch block
FailStep(r) == main[r] # "rejected" /\ main'[r] = "rejected"

\* C33: the trim step of a run comes after every batch write of the run has
\* committed, no row of the run is written after it, and a run that fails
\* does not trim.
C33_TrimAfterWrites ==
  /\ [][\A r \in Runs :
          /\ TrimStep(r) =>
               /\ hpc[r] = "finished"
               /\ error[r] = "none" /\ fault[r] = -1
               /\ Enriched(r) = Len(batch[r])
               /\ processedBatch[r] = <<>>
               /\ commits[r] * batchSize >= Len(batch[r])
               /\ db' = retentionTrim(db)
          /\ FailStep(r) => db' = db
          /\ (main[r] = "returned" /\ main'[r] = "returned") =>
               commits'[r] <= commits[r]]_vars
  /\ [](\A r \in Runs : main[r] = "returned" => hpc[r] \in {"finished", "gone"})

\* A run has written two rows and its trim has deleted one of them.
C33_Witness ==
  \E r \in Runs :
    /\ main[r] = "returned"
    /\ commits[r] = 2
    /\ db.jobSeq = 2
    /\ Cardinality(db.jobs) = 1

\* the names of the tags a job is associated with through job_tags
TagNamesOf(j) == {t.name : t \in {u \in db.tags : <<j.id, u.id>> \in db.job_tags}}

\* the names listed in the tags_csv column of a job
CsvNamesOf(j) == {splitTags(j.tags_csv)[n] : n \in 1..Len(splitTags(j.tags_csv))}

\* C34: for every stored job the tag names associated with it through
\* job_tags are the names listed in its tags_csv, at most 8 of them.
C34_TagsMatchCsv ==
  \A j \in db.jobs :
    /\ TagNamesOf(j) = CsvNamesOf(j)
    /\ Cardinality(TagNamesOf(j)) <= TagCap

\* C35: the list extractTags returns contains the configured target
\* profession, lower-cased (and trimmed, as every tag is).
C35_ProfessionAmongTags ==
  tagsRet # <<>> =>
    \E n \in 1..Len(tagsRet[1]) :
      tagsRet[1][n] = trim(toLowerCase(targetProfession(tagsArg.env)))

\* C36: the published_at of every record the pipeline hands to storage is
\* an integer number of seconds, also when the item has no date element, an
\* empty one, or one that is no date.
C36_PublishedAtIsSeconds ==
  \A n \in 1..Len(batch[1]) : batch[1][n].published_at # NaN

\* processFeed has left through its finally block
Settled(r) == main[r] \in {"returned", "rejected"}

\* C37: a run that has reset FEED_RUNNING issues no further model call and
\* commits no further batch write, and while FEED_RUNNING is false no run is
\* enriching or writing.
C37_QuietAfterReset ==
  /\ [](~FEED_RUNNING => \A r \in Runs : hpc[r] \notin {"aiwait", "fbwait"})
  /\ [][\A r \in Runs :
          (Settled(r) /\ main'[r] = main[r]) =>
            /\ aiCalls'[r] <= aiCalls[r]
            /\ commits'[r] <= commits[r]]_vars

\* the guids the items closed in the run resolved to
GuidsOf(r) == {trace[r][n].guid : n \in 1..Len(trace[r])}

\* C38: a run calls rewriteJobRich, and with it the model, at most once for
\* each guid that its items resolve to.
C38_OneEnrichmentPerGuid ==
  \A r \in Runs :
    /\ Enriched(r) <= Cardinality(GuidsOf(r))
    /\ aiCalls[r] <= Cardinality(GuidsOf(r))
    /\ \A m, n \in 1..Len(batch[r]) : batch[r][m].guid = batch[r][n].guid => m = n

\* C39: after every closed item element processed = matched + skipped, and
\* when a run has completed matched = aiEnhanced + fallbackUsed.
C39_CountersAddUp ==
  \A r \in Runs :
    /\ processed[r] = matched[r] + skipped[r]
    /\ processed[r] = Len(trace[r])
    /\ main[r] = "returned" => matched[r] = aiEnhanced[r] + fallbackUsed[r]

\* A second run has completed: one item was skipped as stored, the other
\* matched and was enriched.
C39_Witness ==
  \E r \in Runs :
    /\ main[r] = "returned"
    /\ processed[r] = 2
    /\ skipped[r] = 1
    /\ matched[r] = 1
    /\ aiEnhanced[r] + fallbackUsed[r] = 1
    /\ \E n \in 1..2 : trace[r][n].did = "dup"

====
